---- MODULE Spec2Model ----
(***************************************************************************)
(* A model of pFIRE's elastic registration core: the executable's main     *)
(* flow (pfire.cpp), Image::load_file / Image::normalize (image.cpp) and   *)
(* the Elastic registrar (elastic.cpp).                                    *)
(*                                                                         *)
(* Several specifications share the module.  Each one runs one part of the *)
(* program and leaves the variables of the other parts at their idle       *)
(* values:                                                                 *)
(*   Spec / FairSpec  main, mainflow, load_file, Elastic, autoregister     *)
(*   SpecSpacings     Elastic::calculate_node_spacings, one loop turn per  *)
(*                    step                                                 *)
(*   SpecNorm         Image::normalize, called repeatedly on one image     *)
(*   SpecStep         Elastic::innerstep and the convergence test of       *)
(*                    innerloop on a small image, one statement group per  *)
(*                    step                                                 *)
(*   SpecCtor         Elastic::Elastic with any node-spacing vector, one   *)
(*                    statement per step                                   *)
(*   SpecGrad         fd::gradient_to_global_unique on one rank's part of  *)
(*                    a small image, one loop turn per step                *)
(*   SpecBasis        calculate_basis_coefficient for the corners of the   *)
(*                    node cell around a pixel, one call per step          *)
(*   SpecRanks        Elastic::innerloop on several ranks, one collective  *)
(*                    entered or completed per step                        *)
(*   SpecPrecond      Elastic::block_precondition on several ranks, one    *)
(*                    rank's loops or one collective per step              *)
(*   SpecGenerations  autoregister's generations, as far as the registered *)
(*                    image goes                                           *)
(***************************************************************************)
EXTENDS Integers, Sequences, FiniteSets, TLC

(***************************************************************************)
(* State.                                                                  *)
(***************************************************************************)
\* the process running main() and everything it calls
VARIABLES
  pc,                    \* the statement the process is at
  argc,                  \* main's argc
  nsArg,                 \* std::stod(argv[3]); <<>> when argv[3] is no number
  fixedLoader,           \* shape reported by the loader found for argv[1];
                         \* <<>> when find_loader throws
  movedLoader,           \* the same for argv[2]
  fixed, moved,          \* mainflow's images
  meshes,                \* number of DMDA meshes created so far
  copies,                \* number of copy_scaled_chunk calls so far
  stderr,                \* lines written to std::cerr
  written,               \* groups written by the HDFWriter
  exitCode,              \* the process's exit status; -1 while it runs
  aborted,               \* ended by CHKERRABORT or std::terminate
  el_constructed,        \* mainflow's Elastic reg exists
  m_v_nodespacings,      \* Elastic members
  m_v_final_nodespacing,
  m_p_map,               \* node spacing of the current Map; <<>> for nullptr
  it,                    \* autoregister's reverse iterator, as the index of
                         \* the entry it designates (0 = rend)
  loop_count,
  inum,                  \* innerloop's counter
  posmax, negmax,        \* VecMax / VecMin of m_workspace->m_delta
  events,                \* history: what autoregister has done, in order
  nsteps,                \* history: innerstep calls of the current innerloop
  nconv,                 \* history: those of them that ended with
                         \* amax < m_convergence_thres
  printed                \* the format of the last line PetscPrintf wrote

mainVars == <<pc, argc, nsArg, fixedLoader, movedLoader, fixed, moved, meshes,
              copies, stderr, written, exitCode, aborted, el_constructed,
              m_v_nodespacings, m_v_final_nodespacing, m_p_map, it, loop_count,
              inum, posmax, negmax, events, nsteps, nconv, printed>>

\* Elastic::calculate_node_spacings run on its own
VARIABLES cs_pc, cs_imshape, cs_final, cs_currspc, cs_nodespacings

csVars == <<cs_pc, cs_imshape, cs_final, cs_currspc, cs_nodespacings>>

\* Image::normalize run on its own
VARIABLES
  nm_pc,
  nm_shape,              \* m_shape
  nm_globalvec,          \* the samples of m_globalvec
  nm_orig,               \* history: the samples before the first call
  nm_returns             \* history: the values normalize() has returned

nmVars == <<nm_pc, nm_shape, nm_globalvec, nm_orig, nm_returns>>

\* Elastic::innerstep run on its own
VARIABLES
  st_pc,
  st_nranks,             \* size of m_comm
  m_fixed, m_moved,      \* samples of the images' global vectors
  m_p_registered,
  m_coef,                \* coefficient vector of *m_p_map
  m_stacktmp,            \* WorkSpace members
  m_tmat,
  m_rhs,
  m_delta,
  normmat,
  lum_scale,             \* block_precondition's local
  st_inum,               \* innerloop's inum
  st_tmat2,              \* history: normmat as MatTransposeMatMult left it
  st_broke,              \* history: innerloop has taken its break
  st_err,                \* history: a PETSc call of innerloop has returned
                         \* a non-zero error code
  st_trace               \* history: the calls of the current inner step

stVars == <<st_pc, st_nranks, m_fixed, m_moved, m_p_registered, m_coef,
            m_stacktmp, m_tmat, m_rhs, m_delta, normmat, lum_scale, st_inum,
            st_tmat2, st_broke, st_err, st_trace>>

\* Elastic::Elastic called on its own, with any node-spacing vector
VARIABLES
  ct_pc,
  ct_fixed,              \* fixed.shape()
  ct_nodespacing,        \* the constructor's argument
  ct_final,              \* m_v_final_nodespacing
  ct_registered,         \* m_p_registered is not nullptr
  ct_map,                \* node spacing of *m_p_map; <<>> for nullptr
  ct_workspace,          \* m_workspace is not nullptr
  ct_thrown              \* what() of the exception thrown; "" for none

ctVars == <<ct_pc, ct_fixed, ct_nodespacing, ct_final, ct_registered, ct_map,
            ct_workspace, ct_thrown>>

\* fd::gradient_to_global_unique called on its own
VARIABLES
  gr_pc,
  gr_dim,                \* the parameter dim
  gr_equiv,              \* what vecs_equivalent(dm_local_vec, localvec) returns
  gr_lo, gr_hi,          \* i_lo and i_hi: the columns the rank owns
  gr_img,                \* img_array: localvec with its ghost cells
  gr_grad,               \* grad_array: the new global vector
  gr_cell,               \* number of turns the loop nest has made
  gr_borrowed,           \* local vectors got from the DMDA and not restored
  gr_arrays,             \* arrays got with DMDAVecGetArray and not restored
  gr_writes,             \* history: stores made to each cell of grad_array
  gr_reads               \* history: the cells of img_array read

grVars == <<gr_pc, gr_dim, gr_equiv, gr_lo, gr_hi, gr_img, gr_grad, gr_cell,
            gr_borrowed, gr_arrays, gr_writes, gr_reads>>

\* calculate_basis_coefficient called for the corners around one pixel
VARIABLES
  bs_pc,
  bs_x,                  \* the pixel, in node units
  bs_base,               \* the node at the cell's lower corner, on every axis
  bs_corner,             \* corners done
  bs_coefs,              \* the values the function has returned, by corner
  bs_exact               \* history: the same products without rounding

bsVars == <<bs_pc, bs_x, bs_base, bs_corner, bs_coefs, bs_exact>>

\* Elastic::innerloop run by every rank of m_comm
VARIABLES
  rk_n,                  \* size of m_comm
  rk_start,              \* rank r (from 1) owns rows rk_start[r] to
                         \* rk_start[r + 1] - 1 of the coefficient vectors
  rk_op,                 \* by rank: the collective of RkProgram it is at
  rk_in,                 \* by rank: it has entered that collective
  rk_inum,               \* by rank: innerloop's inum
  rk_left,               \* by rank: it has left the for loop
  rk_turns,              \* by rank: turns its two summing loops made last
  rk_delta,              \* m_workspace->m_delta, all rows
  rk_trace               \* history, by rank: the collectives it has entered

rkVars == <<rk_n, rk_start, rk_op, rk_in, rk_inum, rk_left, rk_turns, rk_delta,
            rk_trace>>

\* Elastic::block_precondition run by every rank of m_comm
VARIABLES
  bp_pc,                 \* where the ranks are in block_precondition
  bp_n,                  \* size of m_comm
  bp_start,              \* rank r (from 1) owns rows bp_start[r] to
                         \* bp_start[r + 1] - 1 of diag
  bp_normdiag,           \* the diagonal of *normmat, all rows
  bp_ptr,                \* diag, all rows; every rank writes its own
  bp_local,              \* by rank: norm before the reduction
  bp_summed,             \* by rank: the summing loops are done
  bp_count,              \* history, by row: how often it was added to
                         \* norm[0] and to norm[1]
  bp_norm,               \* norm after the reduction, the same on every rank
  bp_lum_scale,          \* lum_scale, the same on every rank
  bp_filled              \* by rank: the filling loops are done

bpVars == <<bp_pc, bp_n, bp_start, bp_normdiag, bp_ptr, bp_local, bp_summed,
            bp_count, bp_norm, bp_lum_scale, bp_filled>>

\* Elastic::autoregister and its inner loops, as far as the registered
\* image goes
VARIABLES
  gn_pc,                 \* where autoregister is
  gn_moved,              \* m_moved, its samples
  gn_registered,         \* *m_p_registered, its samples
  gn_list,               \* m_v_nodespacings
  gn_disp,               \* the displacement the map stands for: pixels along x
  gn_delta,              \* the increment of the last solve, in the same unit
  gn_inum,               \* innerloop's inum
  gn_read                \* history: the registered image calculate_tmat read last

gnVars == <<gn_pc, gn_moved, gn_registered, gn_list, gn_disp, gn_delta, gn_inum,
            gn_read>>

\* what main and the code it calls never touch
notMainVars == <<csVars, nmVars, stVars, ctVars, grVars, bsVars, rkVars, bpVars, gnVars>>

vars == <<mainVars, csVars, nmVars, stVars, ctVars, grVars, bsVars, rkVars, bpVars, gnVars>>

(***************************************************************************)
(* floating (types.hpp:17, PetscScalar).  A value is a pair <<n, d>>: the  *)
(* rational n/d in lowest terms with d > 0, or one of the IEEE specials    *)
(* +Inf = <<1,0>>, -Inf = <<-1,0>>, NaN = <<0,0>>.  Finite arithmetic is   *)
(* exact (rounding is not modelled); division by zero, Inf and NaN follow  *)
(* IEEE 754.                                                               *)
(***************************************************************************)
RECURSIVE Gcd(_, _)
Gcd(a, b) == IF b = 0 THEN a ELSE Gcd(b, a % b)

Abs(x) == IF x < 0 THEN -x ELSE x

Sgn(x) == IF x > 0 THEN 1 ELSE IF x < 0 THEN -1 ELSE 0

NaN == <<0, 0>>

PInf == <<1, 0>>

NInf == <<-1, 0>>

Flt(n, d) ==
  IF d = 0 THEN <<Sgn(n), 0>>
  ELSE LET g == Gcd(Abs(n), Abs(d))
           s == Sgn(d)
       IN <<(s * n) \div g, (s * d) \div g>>

I(n) == <<n, 1>>

IsFinite(a) == a[2] /= 0

FNeg(a) == <<-a[1], a[2]>>

FAdd(a, b) ==
  IF IsFinite(a) /\ IsFinite(b) THEN Flt(a[1] * b[2] + b[1] * a[2], a[2] * b[2])
  ELSE IF a = NaN \/ b = NaN THEN NaN
  ELSE IF ~IsFinite(a) /\ ~IsFinite(b) THEN (IF a = b THEN a ELSE NaN)
  ELSE IF ~IsFinite(a) THEN a
  ELSE b

FSub(a, b) == FAdd(a, FNeg(b))

FMul(a, b) == Flt(a[1] * b[1], a[2] * b[2])

FRecip(a) == Flt(a[2], a[1])

FDiv(a, b) == FMul(a, FRecip(b))

\* operator< on floating: false whenever an operand is NaN
FLt(a, b) ==
  IF a = NaN \/ b = NaN THEN FALSE
  ELSE IF IsFinite(a) /\ IsFinite(b) THEN a[1] * b[2] < b[1] * a[2]
  ELSE IF a = NInf THEN b /= NInf
  ELSE IF a = PInf THEN FALSE
  ELSE b = PInf

\* operator== on floating: NaN equals nothing, itself included
FEq(a, b) == a /= NaN /\ b /= NaN /\ a = b

\* std::fabs
FAbs(a) == <<Abs(a[1]), a[2]>>

\* std::max(a, b) == (a < b) ? b : a
FMax(a, b) == IF FLt(a, b) THEN b ELSE a

(***************************************************************************)
(* Bounds of the model.                                                    *)
(***************************************************************************)
\* image extents 1..MaxDim per axis in SpecSpacings
MaxDim == 5

\* node spacings k/2, k in 1..MaxSpcNum, in SpecSpacings
MaxSpcNum == 3

\* extent of the images main() is run on
MainDim == 8

\* node spacings k/2, k in 1..MaxMainNum, given to main() as argv[3]
MaxMainNum == 3

\* samples k/2, k in 0..MaxSampleNum, of the images of SpecNorm
MaxSampleNum == 2

\* calls of Image::normalize in SpecNorm
MaxNormCalls == 2

\* raw samples 0..MaxPixel of the images of SpecStep
MaxPixel == 2

\* inner iterations of SpecStep
MaxSteps == 2

\* VecMax and VecMin of the solved increment take the values k/10,
\* k in -MaxDeltaNum..MaxDeltaNum, and the non-finite ones
MaxDeltaNum == 1

\* node-spacing components k/2, k in -1..MaxCtNum, given to the constructor
\* in SpecCtor
MaxCtNum == 1

\* entries of m_v_nodespacings after which SpecCtor stops following the
\* loop of calculate_node_spacings
MaxCascade == 6

\* samples 0..MaxGrPixel of the image of SpecGrad
MaxGrPixel == 1

\* bits of the significand of floating in SpecBasis
MantBits == 4

\* pixels of 1..MaxBasisDim coordinates in SpecBasis
MaxBasisDim == 2

\* ranks 1..MaxRanks in SpecRanks
MaxRanks == 3

\* inner iterations of SpecRanks
MaxRkSteps == 2

(***************************************************************************)
(* iterator_routines.hpp                                                   *)
(***************************************************************************)
Min(a, b) == IF a < b THEN a ELSE b

\* the positions at which both ranges have an element
Common(s1, s2) == 1..Min(Len(s1), Len(s2))

\* all_true: every pair satisfies the predicate and the two ranges have the
\* same length; holds[i] is the predicate's value on the i-th pair
all_true(s1, s2, holds) ==
  /\ \A i \in Common(s1, s2) : holds[i]
  /\ Len(s1) = Len(s2)

\* all_true_varlen: every pair of the common prefix satisfies the predicate
all_true_varlen(s1, s2, holds) == \A i \in Common(s1, s2) : holds[i]

(***************************************************************************)
(* Image::Image(shape, comm): the stored shape and dimension count.        *)
(* threw: "image shape should be 2D or 3D".                                *)
(***************************************************************************)
ImageShape(shape) ==
  IF Len(shape) = 3 THEN shape
  ELSE IF Len(shape) = 2 THEN Append(shape, 1)
  ELSE <<>>

ImageNdim(shape) ==
  IF ImageShape(shape) = <<>> THEN 0
  ELSE IF ImageShape(shape)[3] = 1 THEN 2
  ELSE Len(shape)

(***************************************************************************)
(* Elastic::Elastic, lines 38-45: the final node spacing as stored, given  *)
(* the constructor's argument (a 2-vector gets a z spacing of 1).          *)
(***************************************************************************)
FinalNodespacing(nodespacing) ==
  IF Len(nodespacing) = 2 THEN Append(nodespacing, I(1)) ELSE nodespacing

(***************************************************************************)
(* Elastic::calculate_node_spacings                                        *)
(***************************************************************************)
\* a mutant of the loop's predicate: >= in place of >
SpacingPredGe(x, y) == ~FLt(FDiv(I(y), x), I(2))

\* [](floating x, integer y) -> bool { return (y / x) > 2.0; }
SpacingPred(x, y) == FLt(I(2), FDiv(I(y), x))

\* a mutant of the while condition: the z axis is left out
SpacingLoopCondPlanar(currspc, imshape) ==
  \A i \in 1..2 : SpacingPred(currspc[i], imshape[i])

\* the while condition, line 185
SpacingLoopCond(currspc, imshape) ==
  all_true_varlen(currspc, imshape,
                  [i \in Common(currspc, imshape) |-> SpacingPred(currspc[i], imshape[i])])

\* the std::transform of lines 188-189
DoubleSpacing(currspc) == [i \in 1..Len(currspc) |-> FMul(currspc[i], I(2))]

SpcVals == {Flt(k, 2) : k \in 1..MaxSpcNum}

\* the shapes an Image can store: three extents, the last 1 for a 2-D image
CsShapes == {ImageShape(s) : s \in [1..3 -> 1..MaxDim]}

CsIdle ==
  /\ cs_pc = "idle"
  /\ cs_imshape = <<>>
  /\ cs_final = <<>>
  /\ cs_currspc = <<>>
  /\ cs_nodespacings = <<>>

\* lines 182-184: entered from the constructor with a spacing vector of
\* the image's dimension count
CsInit ==
  /\ cs_imshape \in CsShapes
  /\ \E ns \in UNION {[1..n -> SpcVals] : n \in 2..3} :
       /\ Len(ns) = ImageNdim(cs_imshape)
       /\ cs_final = FinalNodespacing(ns)
  /\ cs_currspc = cs_final
  /\ cs_nodespacings = <<cs_final>>
  /\ cs_pc = "loop"

\* one turn of the while loop, lines 185-191
CsDouble ==
  /\ cs_pc = "loop"
  /\ SpacingLoopCond(cs_currspc, cs_imshape)
  /\ cs_currspc' = DoubleSpacing(cs_currspc)
  /\ cs_nodespacings' = Append(cs_nodespacings, cs_currspc')
  /\ UNCHANGED <<cs_pc, cs_imshape, cs_final>>

\* the loop condition fails: the function returns
CsReturn ==
  /\ cs_pc = "loop"
  /\ ~SpacingLoopCond(cs_currspc, cs_imshape)
  /\ cs_pc' = "done"
  /\ UNCHANGED <<cs_imshape, cs_final, cs_currspc, cs_nodespacings>>

\* the whole function, as the constructor calls it (lines 182-191)
RECURSIVE SpacingLoop(_, _, _)
SpacingLoop(currspc, imshape, list) ==
  IF SpacingLoopCond(currspc, imshape)
  THEN SpacingLoop(DoubleSpacing(currspc), imshape,
                   Append(list, DoubleSpacing(currspc)))
  ELSE list

calculate_node_spacings(imshape, final) == SpacingLoop(final, imshape, <<final>>)

(***************************************************************************)
(* Image (image.cpp).  An image is a record: valid (FALSE for a null       *)
(* pointer), m_shape, m_ndim and m_dmda, the identity of its mesh.         *)
(***************************************************************************)
NoImage == [valid |-> FALSE, m_shape |-> <<>>, m_ndim |-> 0, m_dmda |-> 0]

\* Image::Image(const intvector& shape, MPI_Comm comm) with a new mesh
NewImage(shape, mesh) ==
  [valid |-> TRUE, m_shape |-> ImageShape(shape), m_ndim |-> ImageNdim(shape),
   m_dmda |-> mesh]

\* Image::duplicate / Image::Image(const Image&): the mesh is shared
Duplicate(image) ==
  [valid |-> TRUE, m_shape |-> image.m_shape, m_ndim |-> image.m_ndim,
   m_dmda |-> image.m_dmda]

\* std::equal_to<>
EqualTo(a, b) == a = b

\* a mutant of the shape test: all_true_varlen in place of all_true
ShapesMatchVarlen(loaderShape, existingShape) ==
  all_true_varlen(loaderShape, existingShape,
                  [i \in Common(loaderShape, existingShape) |->
                     EqualTo(loaderShape[i], existingShape[i])])

\* the test of lines 92-94
ShapesMatch(loaderShape, existingShape) ==
  all_true(loaderShape, existingShape,
           [i \in Common(loaderShape, existingShape) |->
              EqualTo(loaderShape[i], existingShape[i])])

(***************************************************************************)
(* Image::load_file(path, existing, comm).  loaderShape is the shape of    *)
(* the loader find_loader returns for path, <<>> when it throws.  The      *)
(* result: threw and what (the exception), image (the image returned),     *)
(* made (meshes created), copied (copy_scaled_chunk calls).                *)
(***************************************************************************)
Thrown(msg) ==
  [threw |-> TRUE, what |-> msg, image |-> NoImage, made |-> 0, copied |-> 0]

load_file(loaderShape, existing, mesh) ==
  IF loaderShape = <<>> THEN Thrown("no loader")
  ELSE IF existing.valid
  THEN IF ~ShapesMatch(loaderShape, existing.m_shape)
       THEN Thrown("New image must have same shape as existing")
       ELSE [threw |-> FALSE, what |-> "", image |-> Duplicate(existing),
             made |-> 0, copied |-> 1]
  ELSE IF ImageShape(loaderShape) = <<>>
       THEN Thrown("image shape should be 2D or 3D")
       ELSE [threw |-> FALSE, what |-> "", image |-> NewImage(loaderShape, mesh),
             made |-> 1, copied |-> 1]

(***************************************************************************)
(* PETSc vector routines used by the model (spec-independent BLAS-1).      *)
(***************************************************************************)
RECURSIVE VecSumTo(_, _)
VecSumTo(v, n) == IF n = 0 THEN I(0) ELSE FAdd(VecSumTo(v, n - 1), v[n])

\* VecSum(x, &sum)
VecSum(v) == VecSumTo(v, Len(v))

\* VecScale(x, alpha): x = alpha x
VecScale(v, alpha) == [i \in 1..Len(v) |-> FMul(alpha, v[i])]

(***************************************************************************)
(* Image::normalize (image.cpp:121-130)                                    *)
(***************************************************************************)
\* Image::size(): the number of samples
ImageSize(shape) == shape[1] * shape[2] * shape[3]

\* lines 124-126: norm = this->size() / VecSum(m_globalvec)
NormFactor(shape, globalvec) == FDiv(I(ImageSize(shape)), VecSum(globalvec))

\* line 127: the samples after the call
normalize(shape, globalvec) == VecScale(globalvec, NormFactor(shape, globalvec))

\* samples k/2, k in 0..MaxSampleNum
SampleVals == {Flt(k, 2) : k \in 0..MaxSampleNum}

NmShapes == {<<2, 1, 1>>, <<2, 2, 1>>}

NmIdle ==
  /\ nm_pc = "idle"
  /\ nm_shape = <<>>
  /\ nm_globalvec = <<>>
  /\ nm_orig = <<>>
  /\ nm_returns = <<>>

NmInit ==
  /\ nm_pc = "ready"
  /\ nm_shape \in NmShapes
  /\ nm_globalvec \in [1..ImageSize(nm_shape) -> SampleVals]
  /\ nm_orig = nm_globalvec
  /\ nm_returns = <<>>

\* one call of Image::normalize
NmNormalize ==
  /\ nm_pc = "ready"
  /\ Len(nm_returns) < MaxNormCalls
  /\ nm_globalvec' = normalize(nm_shape, nm_globalvec)
  /\ nm_returns' = Append(nm_returns, NormFactor(nm_shape, nm_globalvec))
  /\ UNCHANGED <<nm_pc, nm_shape, nm_orig>>

(***************************************************************************)
(* Program constants (elastic.hpp:45-46, elastic.cpp:103).                 *)
(***************************************************************************)
m_max_iter == 50

m_convergence_thres == Flt(1, 10)

(***************************************************************************)
(* main() and mainflow() (pfire.cpp), Elastic (elastic.cpp).               *)
(***************************************************************************)
\* the shapes a loader reports: 2-D ones of two or of three extents, 3-D ones
MainShapes ==
  {<<MainDim, MainDim>>, <<MainDim, MainDim, 1>>, <<MainDim, MainDim, MainDim>>,
   <<MainDim, MainDim, MainDim - 1>>}

DeltaVals ==
  {Flt(k, 10) : k \in (0 - MaxDeltaNum)..MaxDeltaNum} \cup {PInf, NInf, NaN}

MainIdle ==
  /\ pc = "idle"
  /\ argc = 0
  /\ nsArg = <<>>
  /\ fixedLoader = <<>>
  /\ movedLoader = <<>>
  /\ fixed = NoImage
  /\ moved = NoImage
  /\ meshes = 0
  /\ copies = 0
  /\ stderr = <<>>
  /\ written = <<>>
  /\ exitCode = -1
  /\ aborted = FALSE
  /\ el_constructed = FALSE
  /\ m_v_nodespacings = <<>>
  /\ m_v_final_nodespacing = <<>>
  /\ m_p_map = <<>>
  /\ it = 0
  /\ loop_count = 0
  /\ inum = 0
  /\ posmax = I(0)
  /\ negmax = I(0)
  /\ events = <<>>
  /\ nsteps = 0
  /\ nconv = 0
  /\ printed = ""

MainInit ==
  /\ pc = "main"
  /\ argc \in {3, 4}
  /\ nsArg \in {<<>>} \cup {Flt(k, 2) : k \in 1..MaxMainNum}
  /\ fixedLoader \in {<<>>} \cup MainShapes
  /\ movedLoader \in {<<>>} \cup MainShapes
  /\ fixed = NoImage
  /\ moved = NoImage
  /\ meshes = 0
  /\ copies = 0
  /\ stderr = <<>>
  /\ written = <<>>
  /\ exitCode = -1
  /\ aborted = FALSE
  /\ el_constructed = FALSE
  /\ m_v_nodespacings = <<>>
  /\ m_v_final_nodespacing = <<>>
  /\ m_p_map = <<>>
  /\ it = 0
  /\ loop_count = 0
  /\ inum = 0
  /\ posmax = I(0)
  /\ negmax = I(0)
  /\ events = <<>>
  /\ nsteps = 0
  /\ nconv = 0
  /\ printed = ""

elVars == <<el_constructed, m_v_nodespacings, m_v_final_nodespacing, m_p_map,
            it, loop_count, inum, posmax, negmax, events, nsteps, nconv, printed>>

ioVars == <<argc, nsArg, fixedLoader, movedLoader>>

imVars == <<fixed, moved, meshes, copies>>

\* pfire.cpp:26-30: too few arguments, usage() and return 0
MainUsage ==
  /\ pc = "main"
  /\ argc < 4
  /\ pc' = "exited"
  /\ exitCode' = 0
  /\ UNCHANGED <<ioVars, imVars, stderr, written, aborted, elVars, notMainVars>>

\* pfire.cpp:32: std::stod(argv[3]); its exception is caught nowhere
MainStod ==
  /\ pc = "main"
  /\ argc >= 4
  /\ IF nsArg = <<>>
     THEN pc' = "exited" /\ exitCode' = 1 /\ aborted' = TRUE
     ELSE pc' = "load_fixed" /\ UNCHANGED <<exitCode, aborted>>
  /\ UNCHANGED <<ioVars, imVars, stderr, written, elVars, notMainVars>>

\* pfire.cpp:48-59
LoadFixed ==
  /\ pc = "load_fixed"
  /\ LET r == load_file(fixedLoader, NoImage, meshes + 1)
     IN /\ fixed' = r.image
        /\ meshes' = meshes + r.made
        /\ copies' = copies + r.copied
        /\ IF r.threw
           THEN /\ stderr' = Append(stderr, <<"Error: Failed to load fixed image: ", r.what>>)
                /\ pc' = "mainflow_returned"
           ELSE /\ stderr' = stderr
                /\ pc' = "load_moved"
  /\ UNCHANGED <<ioVars, moved, written, exitCode, aborted, elVars, notMainVars>>

\* a mutant of LoadMoved: the catch block does not return
LoadMovedNoReturn ==
  /\ pc = "load_moved"
  /\ LET r == load_file(movedLoader, fixed, meshes + 1)
     IN /\ moved' = r.image
        /\ meshes' = meshes + r.made
        /\ copies' = copies + r.copied
        /\ IF r.threw
           THEN stderr' = Append(stderr, <<"Error: Failed to load moved image: ", r.what>>)
           ELSE stderr' = stderr
        /\ pc' = "normalize"
  /\ UNCHANGED <<ioVars, fixed, written, exitCode, aborted, elVars, notMainVars>>

\* pfire.cpp:61-70
LoadMoved ==
  /\ pc = "load_moved"
  /\ LET r == load_file(movedLoader, fixed, meshes + 1)
     IN /\ moved' = r.image
        /\ meshes' = meshes + r.made
        /\ copies' = copies + r.copied
        /\ IF r.threw
           THEN /\ stderr' = Append(stderr, <<"Error: Failed to load moved image: ", r.what>>)
                /\ pc' = "mainflow_returned"
           ELSE /\ stderr' = stderr
                /\ pc' = "normalize"
  /\ UNCHANGED <<ioVars, fixed, written, exitCode, aborted, elVars, notMainVars>>

\* pfire.cpp:72-73 (the samples are not part of this specification)
NormalizeBoth ==
  /\ pc = "normalize"
  /\ pc' = "construct"
  /\ UNCHANGED <<ioVars, imVars, stderr, written, exitCode, aborted, elVars, notMainVars>>

\* pfire.cpp:75-77 and Elastic::Elastic (elastic.cpp:26-58)
Construct ==
  /\ pc = "construct"
  /\ LET nodespacing == [i \in 1..fixed.m_ndim |-> nsArg]
     IN IF fixed.m_ndim /= Len(nodespacing)
        THEN \* the runtime_error is caught nowhere: std::terminate
             /\ pc' = "exited" /\ exitCode' = 1 /\ aborted' = TRUE
             /\ UNCHANGED elVars
        ELSE /\ m_v_final_nodespacing' = FinalNodespacing(nodespacing)
             /\ m_v_nodespacings' =
                  calculate_node_spacings(fixed.m_shape, m_v_final_nodespacing')
             /\ m_p_map' = m_v_nodespacings'[Len(m_v_nodespacings')]
             /\ el_constructed' = TRUE
             /\ pc' = "autoregister"
             /\ UNCHANGED <<exitCode, aborted, it, loop_count, inum, posmax,
                            negmax, events, nsteps, nconv, printed>>
  /\ UNCHANGED <<ioVars, imVars, stderr, written, notMainVars>>

\* elastic.cpp:62-72: loop_count = 1; it = m_v_nodespacings.crbegin()
ArEnter ==
  /\ pc = "autoregister"
  /\ loop_count' = 1
  /\ it' = Len(m_v_nodespacings)
  /\ pc' = "loop_head"
  /\ printed' = "Using %i generations"
  /\ UNCHANGED <<ioVars, imVars, stderr, written, exitCode, aborted, notMainVars,
                 el_constructed, m_v_nodespacings, m_v_final_nodespacing,
                 m_p_map, inum, posmax, negmax, events, nsteps, nconv>>

\* elastic.cpp:73-78: while (it != m_v_nodespacings.rend()), and the
\* "Nodespacing: " line of a generation
ArLoopHead ==
  /\ pc = "loop_head"
  /\ pc' = IF it /= 0 THEN "innerloop" ELSE "write"
  /\ printed' = IF it /= 0 THEN "Nodespacing: " ELSE printed
  /\ UNCHANGED <<ioVars, imVars, stderr, written, exitCode, aborted, notMainVars,
                 el_constructed, m_v_nodespacings, m_v_final_nodespacing,
                 m_p_map, it, loop_count, inum, posmax, negmax, events, nsteps,
                 nconv>>

\* elastic.cpp:80, 94-104: innerloop is entered; inum = 1
InnerloopEnter ==
  /\ pc = "innerloop"
  /\ inum' = 1
  /\ nsteps' = 0
  /\ nconv' = 0
  /\ events' = Append(events, <<"innerloop", m_p_map>>)
  /\ pc' = IF 1 <= m_max_iter THEN "innerstep" ELSE "advance"
  /\ UNCHANGED <<ioVars, imVars, stderr, written, exitCode, aborted, notMainVars,
                 el_constructed, m_v_nodespacings, m_v_final_nodespacing,
                 m_p_map, it, loop_count, posmax, negmax, printed>>

\* elastic.cpp:107, 116-119: innerstep(lambda, inum) solves for m_delta, and
\* VecMax / VecMin read its extremes
Innerstep ==
  /\ pc = "innerstep"
  /\ \E hi \in DeltaVals, lo \in DeltaVals :
       /\ ~FLt(hi, lo)
       /\ posmax' = hi
       /\ negmax' = lo
  /\ nsteps' = nsteps + 1
  /\ pc' = "convcheck"
  /\ printed' = "Iteration %i:"
  /\ UNCHANGED <<ioVars, imVars, stderr, written, exitCode, aborted, notMainVars,
                 el_constructed, m_v_nodespacings, m_v_final_nodespacing,
                 m_p_map, it, loop_count, inum, events, nconv>>

\* a PETSc call of the inner step returns an error: CHKERRABORT
InnerstepAbort ==
  /\ pc = "innerstep"
  /\ pc' = "exited"
  /\ exitCode' = 1
  /\ aborted' = TRUE
  /\ UNCHANGED <<ioVars, imVars, stderr, written, notMainVars, elVars>>

\* std::max(std::fabs(posmax), std::fabs(negmax)), line 120
Amax(hi, lo) == FMax(FAbs(hi), FAbs(lo))

\* a mutant of the convergence test: <= in place of <
ConvergedLe(amax) == ~FLt(m_convergence_thres, amax)

\* amax < m_convergence_thres, line 122
Converged(amax) == FLt(amax, m_convergence_thres)

\* elastic.cpp:120-127 and the for statement of line 104
ConvCheck ==
  /\ pc = "convcheck"
  /\ IF Converged(Amax(posmax, negmax))
     THEN /\ nconv' = nconv + 1
          /\ inum' = inum
          /\ printed' = "Generation %i converged after %i iterations."
          /\ pc' = "advance"
     ELSE /\ nconv' = nconv
          /\ inum' = inum + 1
          /\ printed' = "Maximum displacement: %.2f"
          /\ pc' = IF inum + 1 <= m_max_iter THEN "innerstep" ELSE "advance"
  /\ UNCHANGED <<ioVars, imVars, stderr, written, exitCode, aborted, notMainVars,
                 el_constructed, m_v_nodespacings, m_v_final_nodespacing,
                 m_p_map, it, loop_count, posmax, negmax, events, nsteps>>

\* a mutant of ArAdvance: the iterator moves on by two entries
ArAdvanceTwo ==
  /\ pc = "advance"
  /\ it' = IF it >= 2 THEN it - 2 ELSE 0
  /\ pc' = IF it' = 0 THEN "write" ELSE "erase"
  /\ UNCHANGED <<ioVars, imVars, stderr, written, exitCode, aborted, notMainVars,
                 el_constructed, m_v_nodespacings, m_v_final_nodespacing,
                 m_p_map, loop_count, inum, posmax, negmax, events, nsteps, nconv, printed>>

\* elastic.cpp:81-85: std::advance(it, 1); break at rend()
ArAdvance ==
  /\ pc = "advance"
  /\ it' = it - 1
  /\ pc' = IF it' = 0 THEN "write" ELSE "erase"
  /\ UNCHANGED <<ioVars, imVars, stderr, written, exitCode, aborted, notMainVars,
                 el_constructed, m_v_nodespacings, m_v_final_nodespacing,
                 m_p_map, loop_count, inum, posmax, negmax, events, nsteps, nconv, printed>>

\* a mutant of ArErase: no entry is removed
ArEraseNone ==
  /\ pc = "erase"
  /\ pc' = "interpolate"
  /\ UNCHANGED <<ioVars, imVars, stderr, written, exitCode, aborted, notMainVars,
                 el_constructed, m_v_nodespacings, m_v_final_nodespacing, m_p_map,
                 it, loop_count, inum, posmax, negmax, events, nsteps, nconv,
                 printed>>

\* elastic.cpp:86: m_v_nodespacings.erase(it.base()).  it.base() is the
\* entry after the one it designates, here the last one; the storage stays
\* in place, so it goes on designating the same entry.
ArErase ==
  /\ pc = "erase"
  /\ m_v_nodespacings' =
       [i \in 1..(Len(m_v_nodespacings) - 1) |->
          IF i <= it THEN m_v_nodespacings[i] ELSE m_v_nodespacings[i + 1]]
  /\ pc' = "interpolate"
  /\ UNCHANGED <<ioVars, imVars, stderr, written, exitCode, aborted, notMainVars,
                 el_constructed, m_v_final_nodespacing, m_p_map, it, loop_count,
                 inum, posmax, negmax, events, nsteps, nconv, printed>>

\* elastic.cpp:87: m_p_map = m_p_map->interpolate(*it)
ArInterpolate ==
  /\ pc = "interpolate"
  /\ m_p_map' = m_v_nodespacings[it]
  /\ events' = Append(events, <<"interpolate", m_p_map'>>)
  /\ pc' = "reallocate"
  /\ UNCHANGED <<ioVars, imVars, stderr, written, exitCode, aborted, notMainVars,
                 el_constructed, m_v_nodespacings, m_v_final_nodespacing, it,
                 loop_count, inum, posmax, negmax, nsteps, nconv, printed>>

\* elastic.cpp:88: m_workspace->reallocate_ephemeral_workspace(*m_p_map)
ArReallocate ==
  /\ pc = "reallocate"
  /\ events' = Append(events, <<"reallocate", m_p_map>>)
  /\ pc' = "warp"
  /\ UNCHANGED <<ioVars, imVars, stderr, written, exitCode, aborted, notMainVars,
                 el_constructed, m_v_nodespacings, m_v_final_nodespacing,
                 m_p_map, it, loop_count, inum, posmax, negmax, nsteps, nconv, printed>>

\* elastic.cpp:89-90: m_p_registered = m_p_map->warp(...); loop_count++
ArWarp ==
  /\ pc = "warp"
  /\ events' = Append(events, <<"warp", m_p_map>>)
  /\ loop_count' = loop_count + 1
  /\ pc' = "loop_head"
  /\ UNCHANGED <<ioVars, imVars, stderr, written, exitCode, aborted, notMainVars,
                 el_constructed, m_v_nodespacings, m_v_final_nodespacing,
                 m_p_map, it, inum, posmax, negmax, nsteps, nconv, printed>>

\* pfire.cpp:80-85: autoregister has returned; the writer writes
WriteResults ==
  /\ pc = "write"
  /\ written' = written \o <<"registered", "map">>
  /\ pc' = "mainflow_returned"
  /\ UNCHANGED <<ioVars, imVars, stderr, exitCode, aborted, notMainVars, elVars>>

\* pfire.cpp:36-43: mainflow has returned; return 0
MainReturn ==
  /\ pc = "mainflow_returned"
  /\ exitCode' = 0
  /\ pc' = "exited"
  /\ UNCHANGED <<ioVars, imVars, stderr, written, aborted, notMainVars, elVars>>

(***************************************************************************)
(* The image, the Map and the WorkSpace of SpecStep.  Map and WorkSpace    *)
(* follow the specification: the node grid has ceil(Ni / si) + 1 nodes per *)
(* axis, the basis is the tent basis tiled once per coefficient block, the *)
(* Laplacian is the 5-point stencil with Neumann boundaries, once per      *)
(* block.                                                                  *)
(***************************************************************************)
StShape == <<2, 1, 1>>

StNdim == ImageNdim(StShape)

StNpix == ImageSize(StShape)

\* the node spacing: one cell spans the image
StSpacing == [i \in 1..StNdim |-> StShape[i]]

\* Map: nodes per axis
MapShape == [i \in 1..StNdim |-> ((StShape[i] + StSpacing[i] - 1) \div StSpacing[i]) + 1]

\* Map::size(): nodes of the grid
Mnodes == MapShape[1] * MapShape[2]

\* length of the coefficient vector
MapLen == (StNdim + 1) * Mnodes

\* length of the stacked vector
StackedLen == (StNdim + 1) * StNpix

PixCoord(p) == <<(p - 1) % StShape[1], ((p - 1) \div StShape[1]) % StShape[2]>>

PixIndex(c) == c[2] * StShape[1] + c[1] + 1

NodeCoord(n) == <<(n - 1) % MapShape[1], (n - 1) \div MapShape[1]>>

RECURSIVE BasisCoefficientTo(_, _, _)
BasisCoefficientTo(x, y, n) ==
  IF n = 0 THEN I(1)
  ELSE FMul(BasisCoefficientTo(x, y, n - 1),
            FSub(I(1), FAbs(FSub(x[n], y[n]))))

\* a mutant of calculate_basis_coefficient: the loop ends after the first
\* coordinate
calculate_basis_coefficient_first(x, y) == BasisCoefficientTo(x, y, 1)

\* calculate_basis_coefficient: the product of 1 - |x_i - y_i|
calculate_basis_coefficient(x, y) == BasisCoefficientTo(x, y, Len(x))

\* weight of node n at pixel p
Basis0(p, n) ==
  calculate_basis_coefficient(
    [i \in 1..StNdim |-> Flt(PixCoord(p)[i], StSpacing[i])],
    [i \in 1..StNdim |-> I(NodeCoord(n)[i])])

RowBlock(r) == (r - 1) \div StNpix

RowPix(r) == ((r - 1) % StNpix) + 1

ColBlock(c) == (c - 1) \div Mnodes

ColNode(c) == ((c - 1) % Mnodes) + 1

\* the entries the basis stores: those of the diagonal tiles
BasisStored(r, c) == RowBlock(r) = ColBlock(c)

\* Map::basis()
Basis ==
  [r \in 1..StackedLen |-> [c \in 1..MapLen |->
     IF BasisStored(r, c) THEN Basis0(RowPix(r), ColNode(c)) ELSE I(0)]]

Adjacent(n, m) ==
  Abs(NodeCoord(n)[1] - NodeCoord(m)[1]) + Abs(NodeCoord(n)[2] - NodeCoord(m)[2]) = 1

Laplacian0(n, m) ==
  IF n = m THEN I(Cardinality({k \in 1..Mnodes : Adjacent(n, k)}))
  ELSE IF Adjacent(n, m) THEN I(-1)
  ELSE I(0)

\* Map::laplacian()
Laplacian ==
  [r \in 1..MapLen |-> [c \in 1..MapLen |->
     IF ColBlock(r) = ColBlock(c) THEN Laplacian0(ColNode(r), ColNode(c)) ELSE I(0)]]

(***************************************************************************)
(* fd::gradient (the kernel of fd_routines) on a local vector whose ghost  *)
(* cells hold 0 (DM_BOUNDARY_GHOSTED).                                     *)
(***************************************************************************)
InImage(c) == \A i \in 1..StNdim : 0 <= c[i] /\ c[i] < StShape[i]

LocalAt(localvec, c) == IF InImage(c) THEN localvec[PixIndex(c)] ELSE I(0)

Shift(c, dim, by) == [i \in 1..StNdim |-> IF i = dim THEN c[i] + by ELSE c[i]]

gradient(localvec, dim) ==
  [p \in 1..StNpix |->
     FMul(Flt(1, 2), FSub(LocalAt(localvec, Shift(PixCoord(p), dim, 1)),
                          LocalAt(localvec, Shift(PixCoord(p), dim, -1))))]

(***************************************************************************)
(* PETSc matrix routines, on the stored entries.                           *)
(***************************************************************************)
\* MatDiagonalScale(mat, l, nullptr): the stored entries of row r are
\* multiplied by l[r]
MatDiagonalScale(mat, l, stored) ==
  [r \in 1..Len(mat) |-> [c \in 1..Len(mat[r]) |->
     IF stored[r][c] THEN FMul(l[r], mat[r][c]) ELSE mat[r][c]]]

BasisPattern == [r \in 1..StackedLen |-> [c \in 1..MapLen |-> BasisStored(r, c)]]

RECURSIVE ColumnDot(_, _, _, _)
ColumnDot(mat, i, j, k) ==
  IF k = 0 THEN I(0)
  ELSE IF BasisStored(k, i) /\ BasisStored(k, j)
       THEN FAdd(ColumnDot(mat, i, j, k - 1), FMul(mat[k][i], mat[k][j]))
       ELSE ColumnDot(mat, i, j, k - 1)

\* the entries the product of the transpose of tmat with tmat stores
NormStored(i, j) == ColBlock(i) = ColBlock(j)

NormPattern == [i \in 1..MapLen |-> [j \in 1..MapLen |-> NormStored(i, j)]]

\* MatTransposeMatMult(tmat, tmat, ...)
MatTransposeMatMult(tmat) ==
  [i \in 1..MapLen |-> [j \in 1..MapLen |-> ColumnDot(tmat, i, j, StackedLen)]]

\* MatAXPY(Y, a, X, DIFFERENT_NONZERO_PATTERN): Y = Y + a X
MatAXPY(Y, a, X) ==
  [i \in 1..Len(Y) |-> [j \in 1..Len(Y[i]) |-> FAdd(Y[i][j], FMul(a, X[i][j]))]]

RECURSIVE MultTransposeTo(_, _, _, _)
MultTransposeTo(mat, v, c, k) ==
  IF k = 0 THEN I(0)
  ELSE IF BasisStored(k, c)
       THEN FAdd(MultTransposeTo(mat, v, c, k - 1), FMul(mat[k][c], v[k]))
       ELSE MultTransposeTo(mat, v, c, k - 1)

\* MatMultTranspose(mat, v, out)
MatMultTranspose(mat, v) == [c \in 1..MapLen |-> MultTransposeTo(mat, v, c, StackedLen)]

RECURSIVE VecMaxTo(_, _)
VecMaxTo(v, n) ==
  IF n = 1 THEN v[1]
  ELSE IF FLt(VecMaxTo(v, n - 1), v[n]) THEN v[n] ELSE VecMaxTo(v, n - 1)

\* VecMax(x, nullptr, &max)
VecMax(v) == VecMaxTo(v, Len(v))

RECURSIVE VecMinTo(_, _)
VecMinTo(v, n) ==
  IF n = 1 THEN v[1]
  ELSE IF FLt(v[n], VecMinTo(v, n - 1)) THEN v[n] ELSE VecMinTo(v, n - 1)

\* VecMin(x, nullptr, &min)
VecMin(v) == VecMinTo(v, Len(v))

VecFinite(v) == \A i \in 1..Len(v) : IsFinite(v[i])

MatFinite(mat) == \A i \in 1..Len(mat) : VecFinite(mat[i])

ConstVec(n, a) == [i \in 1..n |-> a]

(***************************************************************************)
(* Elastic::calculate_tmat (elastic.cpp:194-237)                           *)
(***************************************************************************)
\* lines 198-203: 0.5 f + 0.5 r + 1 * (-1)
AverageMinusOne(f, r) ==
  [p \in 1..StNpix |->
     FAdd(FAdd(FMul(Flt(1, 2), f[p]), FMul(Flt(1, 2), r[p])), FMul(I(1), I(-1)))]

\* lines 214-226: the gradients of the average, then 1 - 0.5 (f + r)
StackedGrads(f, r) ==
  gradient(AverageMinusOne(f, r), 1) \o gradient(AverageMinusOne(f, r), 2)
    \o VecScale(AverageMinusOne(f, r), I(-1))

\* lines 229-235
calculate_tmat(f, r) == MatDiagonalScale(Basis, StackedGrads(f, r), BasisPattern)

(***************************************************************************)
(* Elastic::block_precondition (elastic.cpp:239-299)                       *)
(***************************************************************************)
\* line 250
crit_idx == Mnodes * StNdim

\* VecGetOwnershipRange of rank among nranks (PETSc's default layout)
LocalSize(rank, nranks) ==
  (MapLen \div nranks) + (IF rank < MapLen % nranks THEN 1 ELSE 0)

RowStart(rank, nranks) == rank * (MapLen \div nranks) + Min(rank, MapLen % nranks)

\* lines 258-259
SptEnd(rank, nranks) ==
  LET spt_end == crit_idx - RowStart(rank, nranks)
  IN IF spt_end < 0 THEN 0
     ELSE IF spt_end > LocalSize(rank, nranks) THEN LocalSize(rank, nranks)
     ELSE spt_end

\* norm += ptr[idx] for lo <= idx < hi, on the rank whose rows start at start
RECURSIVE SumRange(_, _, _, _)
SumRange(diag, start, lo, hi) ==
  IF hi <= lo THEN I(0)
  ELSE FAdd(SumRange(diag, start, lo, hi - 1), diag[start + hi])

\* lines 264-267 and 268-271 on one rank
LocalNorm(diag, rank, nranks) ==
  <<SumRange(diag, RowStart(rank, nranks), 0, SptEnd(rank, nranks)),
    SumRange(diag, RowStart(rank, nranks), SptEnd(rank, nranks),
             LocalSize(rank, nranks))>>

\* line 276: MPI_Allreduce(..., MPI_SUM, ...), ranks 0 .. rank
RECURSIVE Allreduce(_, _, _, _)
Allreduce(diag, which, rank, nranks) ==
  IF rank = 0 THEN LocalNorm(diag, 0, nranks)[which]
  ELSE FAdd(Allreduce(diag, which, rank - 1, nranks),
            LocalNorm(diag, rank, nranks)[which])

\* lines 279-281
LumScale(mat, nranks) ==
  LET diag == [i \in 1..MapLen |-> mat[i][i]]
      norm0 == FDiv(Allreduce(diag, 1, nranks - 1, nranks), I(crit_idx))
      norm1 == FDiv(Allreduce(diag, 2, nranks - 1, nranks), I(Mnodes))
  IN FDiv(norm0, norm1)

\* the rank that owns row i (1-based)
OwnerOf(i, nranks) ==
  CHOOSE rank \in 0..(nranks - 1) :
    RowStart(rank, nranks) < i /\ i <= RowStart(rank, nranks) + LocalSize(rank, nranks)

\* lines 284-293: the scaling values
ScalingVec(scale, nranks) ==
  [i \in 1..MapLen |->
     IF i - 1 - RowStart(OwnerOf(i, nranks), nranks) < SptEnd(OwnerOf(i, nranks), nranks)
     THEN I(1) ELSE scale]

\* line 297
block_precondition(mat, nranks) ==
  MatDiagonalScale(mat, ScalingVec(LumScale(mat, nranks), nranks), NormPattern)

(***************************************************************************)
(* The solver, Map::update and Map::warp, after the specification.         *)
(***************************************************************************)
\* the multiples of the right-hand side a Krylov solve may return
SolveScales == {I(0), Flt(1, 100), I(1)}

\* KSPSolve(ksp, rhs, delta), started from zero: zero for a zero right-hand
\* side; with a non-finite operator or right-hand side the increment is
\* left at zero or set to Inf or NaN; otherwise an approximation
KSPSolve(mat, rhs) ==
  IF ~MatFinite(mat) \/ ~VecFinite(rhs)
  THEN {ConstVec(MapLen, I(0)), ConstVec(MapLen, PInf), ConstVec(MapLen, NaN)}
  ELSE IF rhs = ConstVec(MapLen, I(0)) THEN {ConstVec(MapLen, I(0))}
  ELSE {VecScale(rhs, c) : c \in SolveScales}

\* Map::update(delta)
MapUpdate(coef, delta) == [i \in 1..MapLen |-> FAdd(coef[i], delta[i])]

\* Map::warp(m_moved, workspace): the moved image itself under the zero map
Warp(movedvec, fixedvec, coef) ==
  IF coef = ConstVec(MapLen, I(0)) THEN {movedvec} ELSE {movedvec, fixedvec}

(***************************************************************************)
(* Elastic::innerstep (elastic.cpp:130-178) and the body of innerloop's    *)
(* for statement (elastic.cpp:104-127), one group of statements per step.  *)
(***************************************************************************)
StIdle ==
  /\ st_pc = "idle"
  /\ st_nranks = 0
  /\ m_fixed = <<>>
  /\ m_moved = <<>>
  /\ m_p_registered = <<>>
  /\ m_coef = <<>>
  /\ m_stacktmp = <<>>
  /\ m_tmat = <<>>
  /\ m_rhs = <<>>
  /\ m_delta = <<>>
  /\ normmat = <<>>
  /\ lum_scale = I(0)
  /\ st_inum = 0
  /\ st_tmat2 = <<>>
  /\ st_broke = FALSE
  /\ st_err = FALSE
  /\ st_trace = <<>>

\* the images a loader delivers
RawImages == [1..StNpix -> {I(k) : k \in 0..MaxPixel}]

\* mainflow has normalised both images; Elastic::Elastic has copied the
\* moved image into m_p_registered and made a zero map
StInit ==
  /\ st_pc = "calculate_tmat"
  /\ st_nranks \in {1, 2}
  /\ \E f \in RawImages : m_fixed = normalize(StShape, f)
  /\ \E m \in RawImages : m_moved = normalize(StShape, m)
  /\ m_p_registered = m_moved
  /\ m_coef = ConstVec(MapLen, I(0))
  /\ m_stacktmp = <<>>
  /\ m_tmat = <<>>
  /\ m_rhs = <<>>
  /\ m_delta = <<>>
  /\ normmat = <<>>
  /\ lum_scale = I(0)
  /\ st_inum = 1
  /\ st_tmat2 = <<>>
  /\ st_broke = FALSE
  /\ st_err = FALSE
  /\ st_trace = <<>>

\* line 133
StCalculateTmat ==
  /\ st_pc = "calculate_tmat"
  /\ m_stacktmp' = StackedGrads(m_fixed, m_p_registered)
  /\ m_tmat' = calculate_tmat(m_fixed, m_p_registered)
  /\ st_pc' = "normmat"
  /\ st_trace' = <<"scatter_grads_to_stacked", "MatDuplicate", "MatDiagonalScale">>
  /\ UNCHANGED <<st_nranks, m_fixed, m_moved, m_p_registered, m_coef, m_rhs,
                 m_delta, normmat, lum_scale, st_inum, st_tmat2, st_broke, st_err>>

\* line 136: normmat = create_unique_mat().  The deleter of the handle
\* normmat held runs (types.hpp:37-39), and normmat holds no matrix
StNormMatReset ==
  /\ st_pc = "normmat"
  /\ normmat' = <<>>
  /\ st_pc' = "tmat2"
  /\ UNCHANGED <<st_nranks, m_fixed, m_moved, m_p_registered, m_coef,
                 m_stacktmp, m_tmat, m_rhs, m_delta, lum_scale, st_inum,
                 st_tmat2, st_broke, st_err, st_trace>>

\* lines 137-140
StNormMat ==
  /\ st_pc = "tmat2"
  /\ normmat' = MatTransposeMatMult(m_tmat)
  /\ st_tmat2' = normmat'
  /\ st_pc' = "block_precondition"
  /\ st_trace' = Append(st_trace, "MatTransposeMatMult")
  /\ UNCHANGED <<st_nranks, m_fixed, m_moved, m_p_registered, m_coef,
                 m_stacktmp, m_tmat, m_rhs, m_delta, lum_scale, st_inum, st_broke, st_err>>

\* a mutant of StBlockPrecondition: lambda * L is added first, and the sum
\* is preconditioned
StBlockPreconditionLate ==
  /\ st_pc = "block_precondition"
  /\ lum_scale' = LumScale(MatAXPY(normmat, I(20), Laplacian), st_nranks)
  /\ normmat' = block_precondition(MatAXPY(normmat, I(20), Laplacian), st_nranks)
  /\ st_pc' = "rhs"
  /\ st_trace' = st_trace \o <<"MatAXPY", "block_precondition">>
  /\ UNCHANGED <<st_nranks, m_fixed, m_moved, m_p_registered, m_coef,
                 m_stacktmp, m_tmat, m_rhs, m_delta, st_inum, st_tmat2, st_broke,
                 st_err>>

\* line 143
StBlockPrecondition ==
  /\ st_pc = "block_precondition"
  /\ lum_scale' = LumScale(normmat, st_nranks)
  /\ normmat' = block_precondition(normmat, st_nranks)
  /\ st_pc' = "axpy"
  /\ st_trace' = Append(st_trace, "block_precondition")
  /\ UNCHANGED <<st_nranks, m_fixed, m_moved, m_p_registered, m_coef,
                 m_stacktmp, m_tmat, m_rhs, m_delta, st_inum, st_tmat2, st_broke, st_err>>

\* lines 146-147; lambda is 20.0 (line 103)
StAXPY ==
  /\ st_pc = "axpy"
  /\ normmat' = MatAXPY(normmat, I(20), Laplacian)
  /\ st_pc' = "rhs"
  /\ st_trace' = Append(st_trace, "MatAXPY")
  /\ UNCHANGED <<st_nranks, m_fixed, m_moved, m_p_registered, m_coef,
                 m_stacktmp, m_tmat, m_rhs, m_delta, lum_scale, st_inum,
                 st_tmat2, st_broke, st_err>>

\* a mutant of StRhs: tmat is not freed
StRhsKeepTmat ==
  /\ st_pc = "rhs"
  /\ LET tmp0 == [p \in 1..StNpix |-> FAdd(FMul(I(-1), m_p_registered[p]), m_fixed[p])]
     IN /\ m_stacktmp' = [r \in 1..StackedLen |-> tmp0[RowPix(r)]]
        /\ m_rhs' = MatMultTranspose(m_tmat, m_stacktmp')
  /\ st_pc' = "solve"
  /\ st_trace' = st_trace \o <<"VecWAXPY", "duplicate_single_grad_to_stacked", "MatMultTranspose">>
  /\ UNCHANGED <<st_nranks, m_fixed, m_moved, m_p_registered, m_coef, m_delta,
                 m_tmat, normmat, lum_scale, st_inum, st_tmat2, st_broke, st_err>>

\* lines 150-157: f - r in every slot of the stacked vector, the right-hand
\* side, and tmat is freed
StRhs ==
  /\ st_pc = "rhs"
  /\ LET tmp0 == [p \in 1..StNpix |-> FAdd(FMul(I(-1), m_p_registered[p]), m_fixed[p])]
     IN /\ m_stacktmp' = [r \in 1..StackedLen |-> tmp0[RowPix(r)]]
        /\ m_rhs' = MatMultTranspose(m_tmat, m_stacktmp')
  /\ m_tmat' = <<>>
  /\ st_pc' = "solve"
  /\ st_trace' = st_trace \o <<"VecWAXPY", "duplicate_single_grad_to_stacked", "MatMultTranspose">>
  /\ UNCHANGED <<st_nranks, m_fixed, m_moved, m_p_registered, m_coef, m_delta,
                 normmat, lum_scale, st_inum, st_tmat2, st_broke, st_err>>

\* lines 160-172
StSolve ==
  /\ st_pc = "solve"
  /\ m_delta' \in KSPSolve(normmat, m_rhs)
  /\ st_pc' = "update"
  /\ st_trace' = Append(st_trace, "KSPSolve")
  /\ UNCHANGED <<st_nranks, m_fixed, m_moved, m_p_registered, m_coef,
                 m_stacktmp, m_tmat, m_rhs, normmat, lum_scale, st_inum,
                 st_tmat2, st_broke, st_err>>

\* lines 174-177
StUpdate ==
  /\ st_pc = "update"
  /\ m_coef' = MapUpdate(m_coef, m_delta)
  /\ \E w \in Warp(m_moved, m_fixed, m_coef') :
       m_p_registered' = normalize(StShape, w)
  /\ st_pc' = "convergence"
  /\ st_trace' = st_trace \o <<"update", "warp", "normalize">>
  /\ UNCHANGED <<st_nranks, m_fixed, m_moved, m_stacktmp, m_tmat, m_rhs,
                 m_delta, normmat, lum_scale, st_inum, st_tmat2, st_broke, st_err>>

\* lines 115-126 and the for statement of line 104, cut at MaxSteps
StConvergence ==
  /\ st_pc = "convergence"
  /\ IF Converged(Amax(VecMax(m_delta), VecMin(m_delta)))
     THEN /\ st_broke' = TRUE
          /\ st_inum' = st_inum
          /\ st_pc' = "done"
     ELSE /\ st_broke' = FALSE
          /\ st_inum' = st_inum + 1
          /\ st_pc' = IF st_inum + 1 <= Min(MaxSteps, m_max_iter)
                      THEN "calculate_tmat" ELSE "done"
  /\ UNCHANGED <<st_nranks, m_fixed, m_moved, m_p_registered, m_coef,
                 m_stacktmp, m_tmat, m_rhs, m_delta, normmat, lum_scale, st_tmat2, st_err, st_trace>>

\* a call whose code is tested returns non-zero: CHKERRABORT.  Every stage
\* but Map::update and Map::warp has such a call in src/ (lines 117-119,
\* 138-140, 146-147, 150-152, 161-172, 197-237, 243-298); and where a
\* handle is replaced, MatDestroy is handed what create_unique_mat left in
\* the old one, a Mat that was never set (types.hpp:37-39)
StAbort ==
  /\ st_pc \in {"calculate_tmat", "normmat", "tmat2", "block_precondition", "axpy",
               "rhs", "solve", "convergence"}
  /\ st_err' = TRUE
  /\ st_pc' = "aborted"
  /\ UNCHANGED <<st_nranks, m_fixed, m_moved, m_p_registered, m_coef,
                 m_stacktmp, m_tmat, m_rhs, m_delta, normmat, lum_scale, st_inum,
                 st_tmat2, st_broke, st_trace>>

\* lines 150-157 when MatMultTranspose returns non-zero: perr is assigned
\* and not tested before KSPCreate overwrites it (line 161).  What the
\* failed call leaves in m_rhs is not fixed: the zero vector it was created
\* with, or the product
StRhsFail ==
  /\ st_pc = "rhs"
  /\ LET tmp0 == [p \in 1..StNpix |-> FAdd(FMul(I(-1), m_p_registered[p]), m_fixed[p])]
     IN /\ m_stacktmp' = [r \in 1..StackedLen |-> tmp0[RowPix(r)]]
        /\ m_rhs' \in {ConstVec(MapLen, I(0)), MatMultTranspose(m_tmat, m_stacktmp')}
  /\ m_tmat' = <<>>
  /\ st_err' = TRUE
  /\ st_trace' = st_trace \o <<"VecWAXPY", "duplicate_single_grad_to_stacked", "MatMultTranspose">>
  /\ st_pc' = "solve"
  /\ UNCHANGED <<st_nranks, m_fixed, m_moved, m_p_registered, m_coef, m_delta,
                 normmat, lum_scale, st_inum, st_tmat2, st_broke>>

(***************************************************************************)
(* Elastic::Elastic (elastic.cpp:26-58), one statement per step.  The      *)
(* cascade is computed by the statements of calculate_node_spacings on     *)
(* the cs_ variables.                                                      *)
(***************************************************************************)
CtSpcVals == {Flt(k, 2) : k \in -1..MaxCtNum}

CtIdle ==
  /\ ct_pc = "idle"
  /\ ct_fixed = <<>>
  /\ ct_nodespacing = <<>>
  /\ ct_final = <<>>
  /\ ct_registered = FALSE
  /\ ct_map = <<>>
  /\ ct_workspace = FALSE
  /\ ct_thrown = ""

\* the initializer list, lines 28-33
CtInit ==
  /\ ct_fixed \in CsShapes
  /\ ct_nodespacing \in UNION {[1..n -> CtSpcVals] : n \in 1..4}
  /\ ct_final = ct_nodespacing
  /\ ct_registered = FALSE
  /\ ct_map = <<>>
  /\ ct_workspace = FALSE
  /\ ct_thrown = ""
  /\ ct_pc = "check"

\* a mutant of the check of lines 38-41: it never throws
CtCheckNone ==
  /\ ct_pc = "check"
  /\ ct_pc' = "pad"
  /\ UNCHANGED <<ct_fixed, ct_nodespacing, ct_final, ct_registered, ct_map,
                 ct_workspace, ct_thrown, csVars>>

\* lines 38-41
CtCheck ==
  /\ ct_pc = "check"
  /\ IF ImageNdim(ct_fixed) /= Len(ct_final)
     THEN /\ ct_thrown' = "number of nodespacings must match number of image dimensions"
          /\ ct_pc' = "thrown"
     ELSE /\ ct_pc' = "pad"
          /\ UNCHANGED ct_thrown
  /\ UNCHANGED <<ct_fixed, ct_nodespacing, ct_final, ct_registered, ct_map,
                 ct_workspace, csVars>>

\* lines 42-45
CtPad ==
  /\ ct_pc = "pad"
  /\ ct_final' = FinalNodespacing(ct_final)
  /\ ct_pc' = "copy"
  /\ UNCHANGED <<ct_fixed, ct_nodespacing, ct_registered, ct_map, ct_workspace,
                 ct_thrown, csVars>>

\* line 48: m_p_registered = moved.copy()
CtCopy ==
  /\ ct_pc = "copy"
  /\ ct_registered' = TRUE
  /\ ct_pc' = "spacings"
  /\ UNCHANGED <<ct_fixed, ct_nodespacing, ct_final, ct_map, ct_workspace,
                 ct_thrown, csVars>>

\* line 51 and lines 182-184: calculate_node_spacings is entered
CtSpacings ==
  /\ ct_pc = "spacings"
  /\ cs_imshape' = ct_fixed
  /\ cs_final' = ct_final
  /\ cs_currspc' = ct_final
  /\ cs_nodespacings' = <<ct_final>>
  /\ cs_pc' = "loop"
  /\ ct_pc' = "cascade"
  /\ UNCHANGED <<ct_fixed, ct_nodespacing, ct_final, ct_registered, ct_map,
                 ct_workspace, ct_thrown>>

\* lines 185-191, one turn of the loop
CtDouble ==
  /\ ct_pc = "cascade"
  /\ Len(cs_nodespacings) < MaxCascade
  /\ CsDouble
  /\ UNCHANGED ctVars

\* the loop is left: calculate_node_spacings returns
CtReturn ==
  /\ ct_pc = "cascade"
  /\ CsReturn
  /\ ct_pc' = "map"
  /\ UNCHANGED <<ct_fixed, ct_nodespacing, ct_final, ct_registered, ct_map,
                 ct_workspace, ct_thrown>>

\* line 54: std::make_unique<Map>(fixed, m_v_nodespacings.back())
CtMap ==
  /\ ct_pc = "map"
  /\ ct_map' = cs_nodespacings[Len(cs_nodespacings)]
  /\ ct_pc' = "workspace"
  /\ UNCHANGED <<ct_fixed, ct_nodespacing, ct_final, ct_registered, ct_workspace,
                 ct_thrown, csVars>>

\* line 57: std::make_shared<WorkSpace>(fixed, *m_p_map); the constructor
\* returns
CtWorkSpace ==
  /\ ct_pc = "workspace"
  /\ ct_workspace' = TRUE
  /\ ct_pc' = "done"
  /\ UNCHANGED <<ct_fixed, ct_nodespacing, ct_final, ct_registered, ct_map,
                 ct_thrown, csVars>>

(***************************************************************************)
(* fd::gradient_to_global_unique, one statement group or one turn of the   *)
(* loop nest per step.  Cells are triples <<i, j, k>>; the local array has *)
(* one layer of ghost cells around the image (stencil width 1,             *)
(* image.cpp:170).                                                         *)
(***************************************************************************)
GrShape == <<2, 2, 1>>

GrImageCells ==
  {<<i, j, k>> : i \in 0..(GrShape[1] - 1), j \in 0..(GrShape[2] - 1),
                 k \in 0..(GrShape[3] - 1)}

GrLocalCells ==
  {<<i, j, k>> : i \in -1..GrShape[1], j \in -1..GrShape[2], k \in -1..GrShape[3]}

\* lines 31-32: intvector ofs = {0,0,0}; ofs[dim] = 1
Ofs(dim) == [d \in 1..3 |-> IF d = dim + 1 THEN 1 ELSE 0]

\* the cell of turn n (from 0) of the loop nest of lines 33-37: i outermost,
\* k innermost
GrCellAt(n, lo) ==
  <<lo + (n \div (GrShape[2] * GrShape[3])),
    (n \div GrShape[3]) % GrShape[2],
    n % GrShape[3]>>

\* turns of the loop nest
GrTurns(lo, hi) == (hi - lo) * GrShape[2] * GrShape[3]

\* a mutant of the kernel: a forward difference
GradientKernelForward(img, c, ofs) ==
  FMul(Flt(1, 2),
       FSub(img[<<c[1] + ofs[1], c[2] + ofs[2], c[3] + ofs[3]>>], img[c]))

\* lines 40-41
GradientKernel(img, c, ofs) ==
  FMul(Flt(1, 2),
       FSub(img[<<c[1] + ofs[1], c[2] + ofs[2], c[3] + ofs[3]>>],
            img[<<c[1] - ofs[1], c[2] - ofs[2], c[3] - ofs[3]>>]))

GrIdle ==
  /\ gr_pc = "idle"
  /\ gr_dim = 0
  /\ gr_equiv = FALSE
  /\ gr_lo = 0
  /\ gr_hi = 0
  /\ gr_img = <<>>
  /\ gr_grad = <<>>
  /\ gr_cell = 0
  /\ gr_borrowed = 0
  /\ gr_arrays = 0
  /\ gr_writes = <<>>
  /\ gr_reads = {}

\* the call: a DMDA whose rank owns columns gr_lo..gr_hi-1, a local vector
\* with any samples and any one value in the cells outside the image, a
\* dimension 0..2
GrInit ==
  /\ gr_pc = "get_local"
  /\ gr_dim \in 0..2
  /\ gr_equiv \in BOOLEAN
  /\ gr_lo \in 0..(GrShape[1] - 1)
  /\ gr_hi \in (gr_lo + 1)..GrShape[1]
  /\ \E f \in [GrImageCells -> {I(v) : v \in 0..MaxGrPixel}],
        g \in {I(0), I(MaxGrPixel + 2)} :
       gr_img = [c \in GrLocalCells |-> IF c \in GrImageCells THEN f[c] ELSE g]
  /\ gr_grad = [c \in GrImageCells |-> I(0)]
  /\ gr_cell = 0
  /\ gr_borrowed = 0
  /\ gr_arrays = 0
  /\ gr_writes = [c \in GrImageCells |-> 0]
  /\ gr_reads = {}

\* line 8: DMGetLocalVector
GrGetLocal ==
  /\ gr_pc = "get_local"
  /\ gr_borrowed' = gr_borrowed + 1
  /\ gr_pc' = "check"
  /\ UNCHANGED <<gr_dim, gr_equiv, gr_lo, gr_hi, gr_img, gr_grad, gr_cell,
                 gr_arrays, gr_writes, gr_reads>>

\* lines 9-11: the vectors are not equivalent; throw
GrThrow ==
  /\ gr_pc = "check"
  /\ ~gr_equiv
  /\ gr_pc' = "thrown"
  /\ UNCHANGED <<gr_dim, gr_equiv, gr_lo, gr_hi, gr_img, gr_grad, gr_cell,
                 gr_borrowed, gr_arrays, gr_writes, gr_reads>>

\* lines 9-12: they are; DMRestoreLocalVector
GrRestoreLocal ==
  /\ gr_pc = "check"
  /\ gr_equiv
  /\ gr_borrowed' = gr_borrowed - 1
  /\ gr_pc' = "create"
  /\ UNCHANGED <<gr_dim, gr_equiv, gr_lo, gr_hi, gr_img, gr_grad, gr_cell,
                 gr_arrays, gr_writes, gr_reads>>

\* lines 15-32: the new global vector, the two arrays, the corners
GrGetArrays ==
  /\ gr_pc = "create"
  /\ gr_arrays' = gr_arrays + 2
  /\ gr_cell' = 0
  /\ gr_pc' = "loop"
  /\ UNCHANGED <<gr_dim, gr_equiv, gr_lo, gr_hi, gr_img, gr_grad, gr_borrowed,
                 gr_writes, gr_reads>>

\* lines 33-44: one turn of the loop nest
GrLoop ==
  /\ gr_pc = "loop"
  /\ gr_cell < GrTurns(gr_lo, gr_hi)
  /\ LET c == GrCellAt(gr_cell, gr_lo)
         ofs == Ofs(gr_dim)
     IN /\ gr_grad' = [gr_grad EXCEPT ![c] = GradientKernel(gr_img, c, ofs)]
        /\ gr_writes' = [gr_writes EXCEPT ![c] = @ + 1]
        /\ gr_reads' = gr_reads \cup
                         {<<c[1] + ofs[1], c[2] + ofs[2], c[3] + ofs[3]>>,
                          <<c[1] - ofs[1], c[2] - ofs[2], c[3] - ofs[3]>>}
  /\ gr_cell' = gr_cell + 1
  /\ UNCHANGED <<gr_pc, gr_dim, gr_equiv, gr_lo, gr_hi, gr_img, gr_borrowed,
                 gr_arrays>>

\* lines 46-49: the loops are done; both arrays are restored, grad returned
GrRestoreArrays ==
  /\ gr_pc = "loop"
  /\ gr_cell >= GrTurns(gr_lo, gr_hi)
  /\ gr_arrays' = gr_arrays - 2
  /\ gr_pc' = "done"
  /\ UNCHANGED <<gr_dim, gr_equiv, gr_lo, gr_hi, gr_img, gr_grad, gr_cell,
                 gr_borrowed, gr_writes, gr_reads>>

(***************************************************************************)
(* calculate_basis_coefficient as the machine computes it: floating is a   *)
(* binary floating-point type, and every operation rounds its exact result *)
(* to the nearest value of MantBits significant bits, ties to even.  The   *)
(* exponent range is not limited.                                          *)
(***************************************************************************)
RECURSIVE Pow2(_)
Pow2(k) == IF k = 0 THEN 1 ELSE 2 * Pow2(k - 1)

\* n/d > 0 rounded: the quotient is brought into [2^(MantBits-1), 2^MantBits)
\* by powers of two and rounded to an integer
RECURSIVE RoundPositive(_, _)
RoundPositive(n, d) ==
  IF n < Pow2(MantBits - 1) * d THEN FDiv(RoundPositive(2 * n, d), I(2))
  ELSE IF n >= Pow2(MantBits) * d THEN FMul(RoundPositive(n, 2 * d), I(2))
  ELSE LET m == n \div d
           r == n % d
       IN IF 2 * r > d \/ (2 * r = d /\ m % 2 = 1) THEN I(m + 1) ELSE I(m)

Round(a) ==
  IF ~IsFinite(a) \/ a[1] = 0 THEN a
  ELSE IF a[1] > 0 THEN RoundPositive(a[1], a[2])
  ELSE FNeg(RoundPositive(-a[1], a[2]))

\* part_005:20-31 with the rounding of each operation
RECURSIVE BasisCoefficientRoundedTo(_, _, _)
BasisCoefficientRoundedTo(x, y, n) ==
  IF n = 0 THEN I(1)
  ELSE Round(FMul(BasisCoefficientRoundedTo(x, y, n - 1),
                  Round(FSub(I(1), FAbs(Round(FSub(x[n], y[n])))))))

\* the corner of turn c (from 0): bit i of c is the step along axis i
BsCornerNode(c, base, ndim) ==
  [i \in 1..ndim |-> I(base + ((c \div Pow2(i - 1)) % 2))]

\* values of floating in [base, base + 1]: those on a grid of
\* 2^-(MantBits-1), and one so close to base that its distance from the
\* opposite corner is not a value of floating
BsCoords(base) ==
  {x \in {FAdd(I(base), Flt(k, Pow2(MantBits - 1))) : k \in 0..Pow2(MantBits - 1)}
          \cup {FAdd(I(base), Flt(1, Pow2(MantBits + 1)))} :
     Round(x) = x}

BsIdle ==
  /\ bs_pc = "idle"
  /\ bs_x = <<>>
  /\ bs_base = 0
  /\ bs_corner = 0
  /\ bs_coefs = <<>>
  /\ bs_exact = <<>>

\* a pixel inside the node cell whose lower corner is bs_base on every axis
BsInit ==
  /\ bs_pc = "corners"
  /\ bs_base \in 0..1
  /\ bs_x \in UNION {[1..n -> BsCoords(bs_base)] : n \in 1..MaxBasisDim}
  /\ bs_corner = 0
  /\ bs_coefs = <<>>
  /\ bs_exact = <<>>

\* one call of calculate_basis_coefficient, for the next corner
BsCoefficient ==
  /\ bs_pc = "corners"
  /\ LET node == BsCornerNode(bs_corner, bs_base, Len(bs_x))
     IN /\ bs_coefs' = Append(bs_coefs,
                              BasisCoefficientRoundedTo(bs_x, node, Len(bs_x)))
        /\ bs_exact' = Append(bs_exact, calculate_basis_coefficient(bs_x, node))
  /\ bs_corner' = bs_corner + 1
  /\ bs_pc' = IF bs_corner + 1 = Pow2(Len(bs_x)) THEN "done" ELSE "corners"
  /\ UNCHANGED <<bs_x, bs_base>>

(***************************************************************************)
(* Elastic::innerloop (elastic.cpp:94-128) as every rank of m_comm runs    *)
(* it.  A rank enters its next collective on its own; the collective       *)
(* completes, for all ranks at once, when every rank has entered the same  *)
(* one.  The vectors have the MapLen rows of the Map of SpecStep.          *)
(***************************************************************************)
\* the collectives of one turn of the for loop, in the order of the code:
\* those of calculate_tmat and MatTransposeMatMult (lines 133-140), the
\* MPI_Allreduce of block_precondition (line 276), those from MatDiagonalScale
\* to normalize (lines 297, 146-177), VecMax and VecMin (lines 116-119)
RkProgram == <<"calculate_tmat", "MPI_Allreduce", "KSPSolve", "VecMax">>

\* where one rank's rows may end and the next one's begin
RkCutPoints == {0, 1, crit_idx, crit_idx + 1, MapLen}

\* solved increments: zero but for one row
RkDeltas ==
  {[i \in 1..MapLen |-> IF i = row THEN v ELSE I(0)] :
     row \in {1, crit_idx, crit_idx + 1, MapLen},
     v \in {I(0), Flt(1, 2), Flt(-1, 2)}}

\* lines 253-271 on a rank owning rows rowstart .. rowend-1: the turns of
\* the loop over spatial rows and of the loop over intensity rows
RkLoopTurns(rowstart, rowend) ==
  LET localsize == rowend - rowstart
      spt_end0 == crit_idx - rowstart
      spt_end == IF spt_end0 < 0 THEN 0
                 ELSE IF spt_end0 > localsize THEN localsize ELSE spt_end0
  IN <<spt_end, localsize - spt_end>>

\* a mutant of RkAmax: the extremes of the rows the rank owns
RkAmaxLocal(delta, rowstart, rowend) ==
  IF rowend <= rowstart THEN PInf
  ELSE LET part == [i \in 1..(rowend - rowstart) |-> delta[rowstart + i]]
       IN Amax(VecMax(part), VecMin(part))

\* lines 116-120: VecMax and VecMin reduce over the rows of all ranks,
\* whatever rows the calling rank owns
RkAmax(delta, rowstart, rowend) == Amax(VecMax(delta), VecMin(delta))

RkIdle ==
  /\ rk_n = 0
  /\ rk_start = <<>>
  /\ rk_op = <<>>
  /\ rk_in = <<>>
  /\ rk_inum = <<>>
  /\ rk_left = <<>>
  /\ rk_turns = <<>>
  /\ rk_delta = <<>>
  /\ rk_trace = <<>>

\* innerloop is entered on every rank (lines 94-104); the rows are shared
\* out in contiguous ranges, any of which may be empty
RkInit ==
  /\ rk_n \in 1..MaxRanks
  /\ rk_start \in [1..(rk_n + 1) -> RkCutPoints]
  /\ rk_start[1] = 0
  /\ rk_start[rk_n + 1] = MapLen
  /\ \A r \in 1..rk_n : rk_start[r] <= rk_start[r + 1]
  /\ rk_op = [r \in 1..rk_n |-> 1]
  /\ rk_in = [r \in 1..rk_n |-> FALSE]
  /\ rk_inum = [r \in 1..rk_n |-> 1]
  /\ rk_left = [r \in 1..rk_n |-> FALSE]
  /\ rk_turns = [r \in 1..rk_n |-> <<0, 0>>]
  /\ rk_delta = [i \in 1..MapLen |-> I(0)]
  /\ rk_trace = [r \in 1..rk_n |-> <<>>]

\* rank r reaches its next collective and enters it; before the
\* MPI_Allreduce it has run the summing loops over its own rows
RkEnter(r) ==
  /\ ~rk_left[r]
  /\ ~rk_in[r]
  /\ rk_in' = [rk_in EXCEPT ![r] = TRUE]
  /\ rk_trace' = [rk_trace EXCEPT ![r] = Append(@, RkProgram[rk_op[r]])]
  /\ rk_turns' =
       IF RkProgram[rk_op[r]] = "MPI_Allreduce"
       THEN [rk_turns EXCEPT ![r] = RkLoopTurns(rk_start[r], rk_start[r + 1])]
       ELSE rk_turns
  /\ UNCHANGED <<rk_n, rk_start, rk_op, rk_inum, rk_left, rk_delta>>

\* every rank has entered the same collective: it completes.  KSPSolve
\* leaves a new increment; after VecMin each rank tests amax (lines
\* 120-126) and breaks, or goes on with inum + 1 while that is at most
\* m_max_iter (line 104; the model stops at MaxRkSteps)
RkComplete ==
  /\ \A r \in 1..rk_n : rk_in[r] /\ rk_op[r] = rk_op[1]
  /\ rk_in' = [r \in 1..rk_n |-> FALSE]
  /\ rk_delta' \in IF RkProgram[rk_op[1]] = "KSPSolve" THEN RkDeltas ELSE {rk_delta}
  /\ IF RkProgram[rk_op[1]] = "VecMax"
     THEN /\ rk_left' =
               [r \in 1..rk_n |->
                  \/ Converged(RkAmax(rk_delta, rk_start[r], rk_start[r + 1]))
                  \/ rk_inum[r] + 1 > Min(MaxRkSteps, m_max_iter)]
          /\ rk_inum' =
               [r \in 1..rk_n |->
                  IF Converged(RkAmax(rk_delta, rk_start[r], rk_start[r + 1]))
                  THEN rk_inum[r] ELSE rk_inum[r] + 1]
          /\ rk_op' = [r \in 1..rk_n |-> 1]
     ELSE /\ rk_op' = [r \in 1..rk_n |-> rk_op[r] + 1]
          /\ UNCHANGED <<rk_left, rk_inum>>
  /\ UNCHANGED <<rk_n, rk_start, rk_turns, rk_trace>>

(***************************************************************************)
(* Elastic::block_precondition (elastic.cpp:239-299) on the ranks of       *)
(* m_comm, each owning a contiguous range of the MapLen rows of diag.      *)
(***************************************************************************)
\* the diagonals of normmat tried: distinct powers of two, the row numbers,
\* all ones, all zeros
BpDiags ==
  {[i \in 1..MapLen |-> I(Pow2(i - 1))], [i \in 1..MapLen |-> I(i)],
   ConstVec(MapLen, I(1)), ConstVec(MapLen, I(0))}

\* a mutant of BpSptEnd: the split is not clamped
BpSptEndUnclamped(rowstart, rowend) == crit_idx - rowstart

\* lines 253-259: spt_end on a rank owning rows rowstart .. rowend - 1
BpSptEnd(rowstart, rowend) ==
  LET localsize == rowend - rowstart
      spt_end == crit_idx - rowstart
  IN IF spt_end < 0 THEN 0 ELSE IF spt_end > localsize THEN localsize ELSE spt_end

\* the global rows (from 1) ptr[idx] stands for, lo <= idx < hi
BpRows(rowstart, lo, hi) == {rowstart + idx + 1 : idx \in lo..(hi - 1)}

BpIdle ==
  /\ bp_pc = "idle"
  /\ bp_n = 0
  /\ bp_start = <<>>
  /\ bp_normdiag = <<>>
  /\ bp_ptr = <<>>
  /\ bp_local = <<>>
  /\ bp_summed = <<>>
  /\ bp_count = <<>>
  /\ bp_norm = <<>>
  /\ bp_lum_scale = I(0)
  /\ bp_filled = <<>>

\* lines 242-257: diag holds the diagonal of normmat; the rows are shared
\* out in contiguous ranges, any of which may be empty; norm is (0, 0)
BpInit ==
  /\ bp_pc = "sum"
  /\ bp_n \in 1..MaxRanks
  /\ bp_start \in [1..(bp_n + 1) -> 0..MapLen]
  /\ bp_start[1] = 0
  /\ bp_start[bp_n + 1] = MapLen
  /\ \A r \in 1..bp_n : bp_start[r] <= bp_start[r + 1]
  /\ bp_normdiag \in BpDiags
  /\ bp_ptr = bp_normdiag
  /\ bp_local = [r \in 1..bp_n |-> <<I(0), I(0)>>]
  /\ bp_summed = [r \in 1..bp_n |-> FALSE]
  /\ bp_count = [i \in 1..MapLen |-> <<0, 0>>]
  /\ bp_norm = <<I(0), I(0)>>
  /\ bp_lum_scale = I(0)
  /\ bp_filled = [r \in 1..bp_n |-> FALSE]

\* lines 261-273 on rank r: the two summing loops
BpLocalSums(r) ==
  LET rowstart == bp_start[r]
      localsize == bp_start[r + 1] - bp_start[r]
      spt_end == BpSptEnd(bp_start[r], bp_start[r + 1])
  IN /\ bp_pc = "sum"
     /\ ~bp_summed[r]
     /\ bp_local' = [bp_local EXCEPT ![r] =
                       <<SumRange(bp_ptr, rowstart, 0, spt_end),
                         SumRange(bp_ptr, rowstart, spt_end, localsize)>>]
     /\ bp_count' =
          [i \in 1..MapLen |->
             <<bp_count[i][1] + (IF i \in BpRows(rowstart, 0, spt_end) THEN 1 ELSE 0),
               bp_count[i][2] + (IF i \in BpRows(rowstart, spt_end, localsize) THEN 1 ELSE 0)>>]
     /\ bp_summed' = [bp_summed EXCEPT ![r] = TRUE]
     /\ UNCHANGED <<bp_pc, bp_n, bp_start, bp_normdiag, bp_ptr, bp_norm,
                    bp_lum_scale, bp_filled>>

\* norm[which] summed over ranks 1 .. r
RECURSIVE BpReduce(_, _, _)
BpReduce(local, which, r) ==
  IF r = 0 THEN I(0) ELSE FAdd(BpReduce(local, which, r - 1), local[r][which])

\* line 276: MPI_Allreduce(MPI_IN_PLACE, norm.data(), 2, ..., MPI_SUM, m_comm)
BpAllreduce ==
  /\ bp_pc = "sum"
  /\ \A r \in 1..bp_n : bp_summed[r]
  /\ bp_norm' = <<BpReduce(bp_local, 1, bp_n), BpReduce(bp_local, 2, bp_n)>>
  /\ bp_pc' = "reduced"
  /\ UNCHANGED <<bp_n, bp_start, bp_normdiag, bp_ptr, bp_local, bp_summed,
                 bp_count, bp_lum_scale, bp_filled>>

\* lines 279-281
BpAverage ==
  /\ bp_pc = "reduced"
  /\ bp_norm' = <<FDiv(bp_norm[1], I(crit_idx)), FDiv(bp_norm[2], I(Mnodes))>>
  /\ bp_lum_scale' = FDiv(FDiv(bp_norm[1], I(crit_idx)), FDiv(bp_norm[2], I(Mnodes)))
  /\ bp_pc' = "fill"
  /\ UNCHANGED <<bp_n, bp_start, bp_normdiag, bp_ptr, bp_local, bp_summed,
                 bp_count, bp_filled>>

\* lines 284-295 on rank r: the two filling loops
BpFill(r) ==
  LET rowstart == bp_start[r]
      localsize == bp_start[r + 1] - bp_start[r]
      spt_end == BpSptEnd(bp_start[r], bp_start[r + 1])
  IN /\ bp_pc = "fill"
     /\ ~bp_filled[r]
     /\ bp_ptr' =
          [i \in 1..MapLen |->
             IF i \in BpRows(rowstart, spt_end, localsize) THEN bp_lum_scale
             ELSE IF i \in BpRows(rowstart, 0, spt_end) THEN I(1)
             ELSE bp_ptr[i]]
     /\ bp_filled' = [bp_filled EXCEPT ![r] = TRUE]
     /\ UNCHANGED <<bp_pc, bp_n, bp_start, bp_normdiag, bp_local, bp_summed,
                    bp_count, bp_norm, bp_lum_scale>>

\* line 297: MatDiagonalScale(*normmat, *diag, nullptr) scales row i by diag[i]
BpScale ==
  /\ bp_pc = "fill"
  /\ \A r \in 1..bp_n : bp_filled[r]
  /\ bp_normdiag' = [i \in 1..MapLen |-> FMul(bp_ptr[i], bp_normdiag[i])]
  /\ bp_pc' = "done"
  /\ UNCHANGED <<bp_n, bp_start, bp_ptr, bp_local, bp_summed, bp_count,
                 bp_norm, bp_lum_scale, bp_filled>>

(***************************************************************************)
(* Elastic::autoregister (elastic.cpp:60-92), innerloop (94-128) and       *)
(* innerstep (130-178) as far as m_p_registered goes.  The image has       *)
(* three axes, so that the cascade can hold more than one spacing; the     *)
(* map is a displacement of whole pixels along x.                          *)
(***************************************************************************)
GnShape == <<3, 3, 3>>

GnNpix == ImageSize(GnShape)

\* the x coordinate of pixel p
GnX(p) == (p - 1) % GnShape[1]

\* the images a loader delivers: the samples vary along x only
GnRawImages ==
  {[p \in 1..GnNpix |-> I(profile[GnX(p) + 1])] :
     profile \in [1..GnShape[1] -> 0..MaxPixel]}

\* the final spacings tried
GnSpacings == {<<I(1), I(1), I(1)>>, <<I(2), I(2), I(2)>>}

\* the displacements a map may stand for
GnDisps == -1..1

\* Map::warp: the moved image sampled at the displaced positions, positions
\* outside the image taken to the nearest edge
WarpShift(movedvec, disp) ==
  [p \in 1..GnNpix |->
     LET x == GnX(p) + disp
         clamped == IF x < 0 THEN 0 ELSE IF x >= GnShape[1] THEN GnShape[1] - 1 ELSE x
     IN movedvec[p + clamped - GnX(p)]]

GnIdle ==
  /\ gn_pc = "idle"
  /\ gn_moved = <<>>
  /\ gn_registered = <<>>
  /\ gn_list = <<>>
  /\ gn_disp = 0
  /\ gn_delta = 0
  /\ gn_inum = 0
  /\ gn_read = <<>>

\* pfire.cpp:72-77 and elastic.cpp:47-57: the moved image is normalised,
\* m_p_registered is its copy, the cascade is computed, the map is zero
GnInit ==
  /\ gn_pc = "innerloop"
  /\ \E m \in GnRawImages : gn_moved = normalize(GnShape, m)
  /\ gn_registered = gn_moved
  /\ \E final \in GnSpacings : gn_list = calculate_node_spacings(GnShape, final)
  /\ gn_disp = 0
  /\ gn_delta = 0
  /\ gn_inum = 0
  /\ gn_read = <<>>

\* elastic.cpp:80, 104: innerloop is entered, inum = 1
GnInnerloop ==
  /\ gn_pc = "innerloop"
  /\ gn_inum' = 1
  /\ gn_pc' = "innerstep"
  /\ UNCHANGED <<gn_moved, gn_registered, gn_list, gn_disp, gn_delta, gn_read>>

\* elastic.cpp:133, 198-202: calculate_tmat reads *m_p_registered
GnCalculateTmat ==
  /\ gn_pc = "innerstep"
  /\ gn_read' = gn_registered
  /\ gn_pc' = "solve"
  /\ UNCHANGED <<gn_moved, gn_registered, gn_list, gn_disp, gn_delta, gn_inum>>

\* elastic.cpp:171-177: KSPSolve, update, warp, normalize
GnSolveUpdateWarp ==
  /\ gn_pc = "solve"
  /\ \E delta \in -1..1 :
       /\ gn_disp + delta \in GnDisps
       /\ gn_delta' = delta
       /\ gn_disp' = gn_disp + delta
       /\ gn_registered' = normalize(GnShape, WarpShift(gn_moved, gn_disp + delta))
  /\ gn_pc' = "convergence"
  /\ UNCHANGED <<gn_moved, gn_list, gn_inum, gn_read>>

\* elastic.cpp:116-126 and the for statement of line 104, cut at MaxSteps:
\* amax < m_convergence_thres when the increment is zero
GnConvergence ==
  /\ gn_pc = "convergence"
  /\ IF gn_delta = 0
     THEN gn_inum' = gn_inum /\ gn_pc' = "advance"
     ELSE /\ gn_inum' = gn_inum + 1
          /\ gn_pc' = IF gn_inum + 1 <= Min(MaxSteps, m_max_iter)
                      THEN "innerstep" ELSE "advance"
  /\ UNCHANGED <<gn_moved, gn_registered, gn_list, gn_disp, gn_delta, gn_read>>

\* elastic.cpp:81-88: advance, break at rend(), or erase the last entry,
\* interpolate the map (it stands for the same displacement) and
\* reallocate the workspace
GnAdvance ==
  /\ gn_pc = "advance"
  /\ IF Len(gn_list) = 1
     THEN gn_pc' = "returned" /\ gn_list' = gn_list
     ELSE gn_pc' = "warp" /\ gn_list' = SubSeq(gn_list, 1, Len(gn_list) - 1)
  /\ UNCHANGED <<gn_moved, gn_registered, gn_disp, gn_delta, gn_inum, gn_read>>

\* elastic.cpp:89-90: m_p_registered = m_p_map->warp(m_moved, *m_workspace);
\* loop_count++; and back to the while statement
GnWarp ==
  /\ gn_pc = "warp"
  /\ gn_registered' = WarpShift(gn_moved, gn_disp)
  /\ gn_pc' = "innerloop"
  /\ UNCHANGED <<gn_moved, gn_list, gn_disp, gn_delta, gn_inum, gn_read>>

(***************************************************************************)
(* Specifications.                                                         *)
(***************************************************************************)
Init == MainInit /\ CsIdle /\ NmIdle /\ StIdle /\ CtIdle /\ GrIdle /\ BsIdle /\ RkIdle /\ BpIdle /\ GnIdle

Next ==
  \/ MainUsage
  \/ MainStod
  \/ LoadFixed
  \/ LoadMoved
  \/ NormalizeBoth
  \/ Construct
  \/ ArEnter
  \/ ArLoopHead
  \/ InnerloopEnter
  \/ Innerstep
  \/ InnerstepAbort
  \/ ConvCheck
  \/ ArAdvance
  \/ ArErase
  \/ ArInterpolate
  \/ ArReallocate
  \/ ArWarp
  \/ WriteResults
  \/ MainReturn

Spec == Init /\ [][Next]_vars

\* the statements of autoregister and innerloop
AutoregisterStep ==
  \/ ArEnter
  \/ ArLoopHead
  \/ InnerloopEnter
  \/ Innerstep
  \/ InnerstepAbort
  \/ ConvCheck
  \/ ArAdvance
  \/ ArErase
  \/ ArInterpolate
  \/ ArReallocate
  \/ ArWarp

\* the process goes on running: it does not stop inside autoregister
FairSpec == Spec /\ WF_vars(AutoregisterStep)

InitSpacings == CsInit /\ MainIdle /\ NmIdle /\ StIdle /\ CtIdle /\ GrIdle /\ BsIdle /\ RkIdle /\ BpIdle /\ GnIdle

NextSpacings ==
  \/ CsDouble /\ UNCHANGED <<mainVars, nmVars, stVars, ctVars, grVars, bsVars, rkVars, bpVars, gnVars>>
  \/ CsReturn /\ UNCHANGED <<mainVars, nmVars, stVars, ctVars, grVars, bsVars, rkVars, bpVars, gnVars>>

SpecSpacings == InitSpacings /\ [][NextSpacings]_vars

InitNorm == NmInit /\ MainIdle /\ CsIdle /\ StIdle /\ CtIdle /\ GrIdle /\ BsIdle /\ RkIdle /\ BpIdle /\ GnIdle

NextNorm == NmNormalize /\ UNCHANGED <<mainVars, csVars, stVars, ctVars, grVars, bsVars, rkVars, bpVars, gnVars>>

SpecNorm == InitNorm /\ [][NextNorm]_vars

InitStep == StInit /\ MainIdle /\ CsIdle /\ NmIdle /\ CtIdle /\ GrIdle /\ BsIdle /\ RkIdle /\ BpIdle /\ GnIdle

NextStep ==
  \/ StCalculateTmat /\ UNCHANGED <<mainVars, csVars, nmVars, ctVars, grVars, bsVars, rkVars, bpVars, gnVars>>
  \/ StNormMatReset /\ UNCHANGED <<mainVars, csVars, nmVars, ctVars, grVars, bsVars, rkVars, bpVars, gnVars>>
  \/ StNormMat /\ UNCHANGED <<mainVars, csVars, nmVars, ctVars, grVars, bsVars, rkVars, bpVars, gnVars>>
  \/ StBlockPrecondition /\ UNCHANGED <<mainVars, csVars, nmVars, ctVars, grVars, bsVars, rkVars, bpVars, gnVars>>
  \/ StAXPY /\ UNCHANGED <<mainVars, csVars, nmVars, ctVars, grVars, bsVars, rkVars, bpVars, gnVars>>
  \/ StRhs /\ UNCHANGED <<mainVars, csVars, nmVars, ctVars, grVars, bsVars, rkVars, bpVars, gnVars>>
  \/ StSolve /\ UNCHANGED <<mainVars, csVars, nmVars, ctVars, grVars, bsVars, rkVars, bpVars, gnVars>>
  \/ StUpdate /\ UNCHANGED <<mainVars, csVars, nmVars, ctVars, grVars, bsVars, rkVars, bpVars, gnVars>>
  \/ StConvergence /\ UNCHANGED <<mainVars, csVars, nmVars, ctVars, grVars, bsVars, rkVars, bpVars, gnVars>>
  \/ StAbort /\ UNCHANGED <<mainVars, csVars, nmVars, ctVars, grVars, bsVars, rkVars, bpVars, gnVars>>
  \/ StRhsFail /\ UNCHANGED <<mainVars, csVars, nmVars, ctVars, grVars, bsVars, rkVars, bpVars, gnVars>>

SpecStep == InitStep /\ [][NextStep]_vars

InitCtor == CtInit /\ MainIdle /\ CsIdle /\ NmIdle /\ StIdle /\ GrIdle /\ BsIdle /\ RkIdle /\ BpIdle /\ GnIdle

NextCtor ==
  \/ CtCheck /\ UNCHANGED <<mainVars, nmVars, stVars, grVars, bsVars, rkVars, bpVars, gnVars>>
  \/ CtPad /\ UNCHANGED <<mainVars, nmVars, stVars, grVars, bsVars, rkVars, bpVars, gnVars>>
  \/ CtCopy /\ UNCHANGED <<mainVars, nmVars, stVars, grVars, bsVars, rkVars, bpVars, gnVars>>
  \/ CtSpacings /\ UNCHANGED <<mainVars, nmVars, stVars, grVars, bsVars, rkVars, bpVars, gnVars>>
  \/ CtDouble /\ UNCHANGED <<mainVars, nmVars, stVars, grVars, bsVars, rkVars, bpVars, gnVars>>
  \/ CtReturn /\ UNCHANGED <<mainVars, nmVars, stVars, grVars, bsVars, rkVars, bpVars, gnVars>>
  \/ CtMap /\ UNCHANGED <<mainVars, nmVars, stVars, grVars, bsVars, rkVars, bpVars, gnVars>>
  \/ CtWorkSpace /\ UNCHANGED <<mainVars, nmVars, stVars, grVars, bsVars, rkVars, bpVars, gnVars>>

SpecCtor == InitCtor /\ [][NextCtor]_vars

InitGrad == GrInit /\ MainIdle /\ CsIdle /\ NmIdle /\ StIdle /\ CtIdle /\ BsIdle /\ RkIdle /\ BpIdle /\ GnIdle

NextGrad ==
  \/ GrGetLocal /\ UNCHANGED <<mainVars, csVars, nmVars, stVars, ctVars, bsVars, rkVars, bpVars, gnVars>>
  \/ GrThrow /\ UNCHANGED <<mainVars, csVars, nmVars, stVars, ctVars, bsVars, rkVars, bpVars, gnVars>>
  \/ GrRestoreLocal /\ UNCHANGED <<mainVars, csVars, nmVars, stVars, ctVars, bsVars, rkVars, bpVars, gnVars>>
  \/ GrGetArrays /\ UNCHANGED <<mainVars, csVars, nmVars, stVars, ctVars, bsVars, rkVars, bpVars, gnVars>>
  \/ GrLoop /\ UNCHANGED <<mainVars, csVars, nmVars, stVars, ctVars, bsVars, rkVars, bpVars, gnVars>>
  \/ GrRestoreArrays /\ UNCHANGED <<mainVars, csVars, nmVars, stVars, ctVars, bsVars, rkVars, bpVars, gnVars>>

SpecGrad == InitGrad /\ [][NextGrad]_vars

InitBasis == BsInit /\ MainIdle /\ CsIdle /\ NmIdle /\ StIdle /\ CtIdle /\ GrIdle /\ RkIdle /\ BpIdle /\ GnIdle

NextBasis ==
  BsCoefficient /\ UNCHANGED <<mainVars, csVars, nmVars, stVars, ctVars, grVars, rkVars, bpVars, gnVars>>

SpecBasis == InitBasis /\ [][NextBasis]_vars

InitRanks ==
  RkInit /\ MainIdle /\ CsIdle /\ NmIdle /\ StIdle /\ CtIdle /\ GrIdle /\ BsIdle /\ BpIdle /\ GnIdle

NextRanks ==
  \/ \E r \in 1..rk_n :
       RkEnter(r) /\ UNCHANGED <<mainVars, csVars, nmVars, stVars, ctVars, grVars, bsVars, bpVars, gnVars>>
  \/ RkComplete /\ UNCHANGED <<mainVars, csVars, nmVars, stVars, ctVars, grVars, bsVars, bpVars, gnVars>>

SpecRanks == InitRanks /\ [][NextRanks]_vars

InitPrecond ==
  BpInit /\ MainIdle /\ CsIdle /\ NmIdle /\ StIdle /\ CtIdle /\ GrIdle /\ BsIdle /\ RkIdle /\ GnIdle

NextPrecond ==
  \/ \E r \in 1..bp_n :
       BpLocalSums(r) /\ UNCHANGED <<mainVars, csVars, nmVars, stVars, ctVars, grVars, bsVars, rkVars, gnVars>>
  \/ BpAllreduce /\ UNCHANGED <<mainVars, csVars, nmVars, stVars, ctVars, grVars, bsVars, rkVars, gnVars>>
  \/ BpAverage /\ UNCHANGED <<mainVars, csVars, nmVars, stVars, ctVars, grVars, bsVars, rkVars, gnVars>>
  \/ \E r \in 1..bp_n :
       BpFill(r) /\ UNCHANGED <<mainVars, csVars, nmVars, stVars, ctVars, grVars, bsVars, rkVars, gnVars>>
  \/ BpScale /\ UNCHANGED <<mainVars, csVars, nmVars, stVars, ctVars, grVars, bsVars, rkVars, gnVars>>

SpecPrecond == InitPrecond /\ [][NextPrecond]_vars

InitGenerations ==
  GnInit /\ MainIdle /\ CsIdle /\ NmIdle /\ StIdle /\ CtIdle /\ GrIdle /\ BsIdle /\ RkIdle /\ BpIdle

NextGenerations ==
  \/ GnInnerloop /\ UNCHANGED <<mainVars, csVars, nmVars, stVars, ctVars, grVars, bsVars, rkVars, bpVars>>
  \/ GnCalculateTmat /\ UNCHANGED <<mainVars, csVars, nmVars, stVars, ctVars, grVars, bsVars, rkVars, bpVars>>
  \/ GnSolveUpdateWarp /\ UNCHANGED <<mainVars, csVars, nmVars, stVars, ctVars, grVars, bsVars, rkVars, bpVars>>
  \/ GnConvergence /\ UNCHANGED <<mainVars, csVars, nmVars, stVars, ctVars, grVars, bsVars, rkVars, bpVars>>
  \/ GnAdvance /\ UNCHANGED <<mainVars, csVars, nmVars, stVars, ctVars, grVars, bsVars, rkVars, bpVars>>
  \/ GnWarp /\ UNCHANGED <<mainVars, csVars, nmVars, stVars, ctVars, grVars, bsVars, rkVars, bpVars>>

SpecGenerations == InitGenerations /\ [][NextGenerations]_vars

(***************************************************************************)
(* Generation order                                                        *)
(***************************************************************************)
\* generation g (1 = first run = coarsest) uses the g-th entry from the back
GenSpacing(list, g) == list[Len(list) + 1 - g]

(***************************************************************************)
(* C1                                                                      *)
(***************************************************************************)
\* the cascade the constructor computed, before autoregister erases from it
Cascade == calculate_node_spacings(fixed.m_shape, m_v_final_nodespacing)

RECURSIVE ExpectedFrom(_, _)
ExpectedFrom(list, g) ==
  IF g >= Len(list)
  THEN <<<<"innerloop", GenSpacing(list, g)>>>>
  ELSE <<<<"innerloop", GenSpacing(list, g)>>,
         <<"interpolate", GenSpacing(list, g + 1)>>,
         <<"reallocate", GenSpacing(list, g + 1)>>,
         <<"warp", GenSpacing(list, g + 1)>>>> \o ExpectedFrom(list, g + 1)

IsPrefix(s, t) == Len(s) <= Len(t) /\ \A i \in 1..Len(s) : s[i] = t[i]

\* C1: when autoregister returns it has run one inner loop per entry of the
\* cascade, from the coarsest spacing to the finest, with interpolation to
\* the next-finer spacing, reallocation and a warp, in this order, between
\* two consecutive inner loops and nothing after the last one; until then
\* what it has done is a prefix of that sequence; and once called it
\* returns, unless a PETSc error aborts the program.
C1_Autoregister ==
  /\ [](pc = "write" => events = ExpectedFrom(Cascade, 1))
  /\ [](el_constructed => IsPrefix(events, ExpectedFrom(Cascade, 1)))
  /\ (pc = "autoregister") ~> (pc = "write" \/ aborted)

\* C1: autoregister has returned from a cascade of three or more entries
C1_Witness == pc = "write" /\ Len(events) >= 9 /\ Len(Cascade) >= 3

(***************************************************************************)
(* C3                                                                      *)
(***************************************************************************)
\* C3: an inner step runs only while fewer than 50 have run in this
\* generation and the last one, if any, had amax >= 0.1 or unordered; when
\* the inner loop is left, between 1 and 50 steps have run, and either the
\* last one had amax < 0.1 and the loop broke there, or 50 steps have run.
C3_Innerloop ==
  /\ pc = "innerstep" =>
       /\ nsteps < 50
       /\ nconv = 0
       /\ nsteps >= 1 => ~FLt(Amax(posmax, negmax), Flt(1, 10))
  /\ pc = "advance" =>
       /\ 1 <= nsteps
       /\ nsteps <= 50
       /\ IF FLt(Amax(posmax, negmax), Flt(1, 10))
          THEN nconv = 1
          ELSE nconv = 0 /\ nsteps = 50

\* C3: the loop is left after 50 steps, the last with amax exactly 0.1
C3_Witness ==
  /\ pc = "advance"
  /\ nsteps = 50
  /\ nconv = 0
  /\ Amax(posmax, negmax) = Flt(1, 10)

(***************************************************************************)
(* C8                                                                      *)
(***************************************************************************)
\* load_file(movedpath, fixed.get()) has returned or thrown
MovedLoadDone == fixed.valid /\ pc /= "load_moved"

\* C8: the load with a template yields an image exactly when the loader
\* has a shape and it equals the template's stored shape, in length and
\* element by element; that image has the template's mesh and no mesh was
\* created for it; on a failure no image is returned and no sample was
\* copied for it.  The load without a template creates a mesh and stores
\* the loader's shape.
C8_LoadFile ==
  /\ fixed.valid =>
       /\ fixed.m_dmda = 1
       /\ meshes = 1
       /\ fixed.m_shape = ImageShape(fixedLoader)
  /\ MovedLoadDone =>
       /\ moved.valid <=>
            /\ Len(movedLoader) = Len(fixed.m_shape)
            /\ \A i \in 1..Len(movedLoader) : movedLoader[i] = fixed.m_shape[i]
       /\ moved.valid => moved.m_dmda = fixed.m_dmda /\ copies = 2
       /\ ~moved.valid =>
            /\ copies = 1
            /\ moved = NoImage
            /\ Len(stderr) = 1
            /\ stderr[1][1] = "Error: Failed to load moved image: "

\* C8: a load with a template has succeeded
C8_Witness ==
  /\ MovedLoadDone
  /\ moved.valid
  /\ moved.m_dmda = fixed.m_dmda
  /\ movedLoader = fixed.m_shape

(***************************************************************************)
(* C9                                                                      *)
(***************************************************************************)
\* both files have a loader, and the shapes differ
ShapeMismatch ==
  /\ fixedLoader /= <<>>
  /\ movedLoader /= <<>>
  /\ movedLoader /= ImageShape(fixedLoader)

\* C9: when the shapes differ, no Elastic is ever constructed, autoregister
\* is never entered, nothing is ever written, and once the load of the
\* moved image is over stderr holds its error message, which names the
\* shape mismatch.
C9_Mismatch ==
  ShapeMismatch =>
    /\ ~el_constructed
    /\ pc \notin {"normalize", "construct", "autoregister", "loop_head",
                  "innerloop", "innerstep", "convcheck", "advance", "erase",
                  "interpolate", "reallocate", "warp", "write"}
    /\ events = <<>>
    /\ written = <<>>
    /\ MovedLoadDone =>
         stderr = << <<"Error: Failed to load moved image: ",
                       "New image must have same shape as existing">> >>

\* C9: the load of the moved image has failed on a shape mismatch and
\* main has returned
C9_Witness ==
  /\ ShapeMismatch
  /\ MovedLoadDone
  /\ pc = "exited"
  /\ Len(stderr) = 1

(***************************************************************************)
(* C10                                                                     *)
(***************************************************************************)
\* the run registered the images and wrote the results
Success == written = <<"registered", "map">>

\* C10 as claimed: the exit code is 0 exactly when the run succeeded; a
\* usage error, a failed load and an abort all give a non-zero code.
C10_Claimed == pc = "exited" => (exitCode = 0 <=> Success)

(***************************************************************************)
(* C4, C5, C6                                                              *)
(***************************************************************************)
\* fixed and moved hold the same, finite, samples
StIdentical == m_fixed = m_moved /\ VecFinite(m_fixed)

MeanDiag(mat, lo, hi) ==
  FDiv(SumRange([i \in 1..Len(mat) |-> mat[i][i]], 0, lo - 1, hi), I(hi + 1 - lo))

\* C5 as claimed: after block_precondition the diagonal of the spatial rows
\* and the diagonal of the intensity rows have the same mean, and the
\* spatial rows are as the matrix product left them.
C5_Claimed ==
  (st_pc = "axpy" /\ VecFinite(m_fixed) /\ VecFinite(m_p_registered)) =>
    /\ FEq(MeanDiag(normmat, 1, crit_idx), MeanDiag(normmat, crit_idx + 1, MapLen))
    /\ \A i \in 1..crit_idx : normmat[i] = st_tmat2[i]

\* C6 as claimed: the matrix KSPSetOperators is given is symmetric.
C6_Claimed ==
  (st_pc = "solve" /\ VecFinite(m_fixed) /\ VecFinite(m_p_registered)) =>
    \A i \in 1..MapLen : \A j \in 1..MapLen : FEq(normmat[i][j], normmat[j][i])

(***************************************************************************)
(* C7                                                                      *)
(***************************************************************************)
\* C7 as claimed: the first call returns N / (sum of the samples) and
\* leaves every sample multiplied by it and the sum of the samples equal to
\* N; the second call returns 1 and leaves the samples as they were.
C7_Claimed ==
  /\ Len(nm_returns) >= 1 =>
       /\ FEq(nm_returns[1], FDiv(I(ImageSize(nm_shape)), VecSum(nm_orig)))
       /\ \A i \in 1..Len(nm_orig) :
            FEq(nm_globalvec[i], FMul(nm_orig[i], nm_returns[1]))
       /\ FEq(VecSum(nm_globalvec), I(ImageSize(nm_shape)))
  /\ Len(nm_returns) >= 2 => FEq(nm_returns[2], I(1))

(***************************************************************************)
(* C2                                                                      *)
(***************************************************************************)
StrictlyDecreasing(list) ==
  \A g \in 1..(Len(list) - 1) : \A i \in 1..3 :
    FLt(GenSpacing(list, g + 1)[i], GenSpacing(list, g)[i])

\* Ni / si > 2 in every dimension, stated as Ni > 2 si
RatioAbove(k, s, shape) == \A i \in 1..3 : FLt(FMul(I(k), s[i]), I(shape[i]))

\* C2 as claimed: the spacings are strictly decreasing in generation order
\* and every generation but the final (finest) one has Ni / si > 2 in every
\* dimension.
C2_Claimed ==
  cs_pc = "done" =>
    /\ StrictlyDecreasing(cs_nodespacings)
    /\ \A g \in 1..(Len(cs_nodespacings) - 1) :
         RatioAbove(2, GenSpacing(cs_nodespacings, g), cs_imshape)

\* C2 as amended: the spacings are strictly decreasing in generation order;
\* every generation but the first (coarsest) one has Ni / si > 2 in every
\* dimension; the coarsest one has Ni / si <= 2 in some dimension and, when
\* it is not the only generation, Ni / si > 1 in every dimension.
C2_Amended ==
  cs_pc = "done" =>
    /\ StrictlyDecreasing(cs_nodespacings)
    /\ GenSpacing(cs_nodespacings, Len(cs_nodespacings)) = cs_final
    /\ \A g \in 2..Len(cs_nodespacings) :
         RatioAbove(2, GenSpacing(cs_nodespacings, g), cs_imshape)
    /\ ~RatioAbove(2, GenSpacing(cs_nodespacings, 1), cs_imshape)
    /\ Len(cs_nodespacings) > 1 =>
         RatioAbove(1, GenSpacing(cs_nodespacings, 1), cs_imshape)

\* a cascade of at least three generations has been computed
C2_Witness == cs_pc = "done" /\ Len(cs_nodespacings) >= 3

(***************************************************************************)
(* C11                                                                     *)
(***************************************************************************)
\* the constructor's argument has as many entries as the fixed image has
\* dimensions
CtLengthMatches == Len(ct_nodespacing) = ImageNdim(ct_fixed)

\* C11: once the length check has run, the constructor has thrown the
\* runtime_error exactly when the node-spacing vector's length differs from
\* the fixed image's number of dimensions; when it has thrown, the moved
\* image was not copied, no cascade was computed and no map or workspace
\* was allocated; with a matching length it goes on, and when it returns
\* all four exist.
C11_Ctor ==
  /\ ct_pc \notin {"idle", "check"} =>
       (ct_pc = "thrown" <=> ~CtLengthMatches)
  /\ ct_pc = "thrown" =>
       /\ ct_thrown = "number of nodespacings must match number of image dimensions"
       /\ ~ct_registered
       /\ cs_nodespacings = <<>>
       /\ ct_map = <<>>
       /\ ~ct_workspace
  /\ ct_pc /= "thrown" => ct_thrown = ""
  /\ ct_pc = "done" =>
       /\ ct_registered
       /\ cs_nodespacings /= <<>>
       /\ ct_map /= <<>>
       /\ ct_workspace

\* C11: the constructor has thrown for a 3-vector given with a 2-D image
C11_Witness ==
  /\ ct_pc = "thrown"
  /\ Len(ct_nodespacing) = 3
  /\ ImageNdim(ct_fixed) = 2

\* C11: the constructor has returned for a 2-vector given with a 2-D image
C11_WitnessMatch ==
  /\ ct_pc = "done"
  /\ Len(ct_nodespacing) = 2
  /\ Len(ct_final) = 3

(***************************************************************************)
(* C12                                                                     *)
(***************************************************************************)
\* the constructor's argument has a component that is zero or negative
CtNonPositive ==
  \E i \in 1..Len(ct_nodespacing) : ~FLt(I(0), ct_nodespacing[i])

\* C12: a constructor given a final node spacing with a non-positive
\* component ends in finitely many steps with an error raised to its
\* caller: it never builds a Map for such a spacing, so that no generation
\* runs with one, and no turn of the cascade loop leaves the spacing as it
\* was.
C12_Claimed ==
  /\ ct_pc \in {"map", "workspace", "done"} => ~CtNonPositive
  /\ (ct_pc = "cascade" /\ Len(cs_nodespacings) >= 2) =>
       cs_nodespacings[Len(cs_nodespacings)] /=
         cs_nodespacings[Len(cs_nodespacings) - 1]

(***************************************************************************)
(* C13                                                                     *)
(***************************************************************************)
\* C13: when an inner loop is left without any iteration having reached
\* amax < threshold, the last line logged reports the non-convergence: it
\* is neither the line every iteration ends with nor the line of a
\* converged generation; and the registrar is neither aborted nor back in
\* the same generation.
C13_Claimed ==
  (pc = "advance" /\ nconv = 0) =>
    /\ printed \notin {"Maximum displacement: %.2f",
                       "Generation %i converged after %i iterations."}
    /\ ~aborted
    /\ nsteps = m_max_iter

(***************************************************************************)
(* C14                                                                     *)
(***************************************************************************)
\* C14: once a PETSc call of the inner loop has returned a non-zero error
\* code the process is aborted: no later operation of the inner step runs.
C14_Claimed == st_err => st_pc = "aborted"

(***************************************************************************)
(* C15                                                                     *)
(***************************************************************************)
\* C15: when gradient_to_global_unique has returned or thrown, every local
\* vector it got from the DMDA has been restored and every array it got
\* has been restored, and it never restores more than it got.
C15_Claimed ==
  /\ gr_pc \in {"done", "thrown"} => (gr_borrowed = 0 /\ gr_arrays = 0)
  /\ gr_borrowed >= 0
  /\ gr_arrays >= 0

(***************************************************************************)
(* C16                                                                     *)
(***************************************************************************)
\* the cells the rank owns
GrOwned == {c \in GrImageCells : gr_lo <= c[1] /\ c[1] < gr_hi}

\* the neighbours of cell c along axis gr_dim
GrUp(c) == [c EXCEPT ![gr_dim + 1] = @ + 1]

GrDown(c) == [c EXCEPT ![gr_dim + 1] = @ - 1]

\* C16: when gradient_to_global_unique returns, every owned cell of the
\* result has been stored to exactly once and holds half the difference of
\* the source's two neighbours of that cell along axis dim, and no other
\* cell was stored to; no cell is ever stored to twice; the only source
\* cells read are those two neighbours of owned cells, all within the one
\* layer of ghost cells; and the source is never modified.
C16_Gradient ==
  /\ [](gr_pc = "done" =>
         \A c \in GrImageCells :
           IF c \in GrOwned
           THEN /\ gr_writes[c] = 1
                /\ gr_grad[c] = FDiv(FSub(gr_img[GrUp(c)], gr_img[GrDown(c)]), I(2))
           ELSE gr_writes[c] = 0)
  /\ [](gr_pc \in {"loop", "done"} => \A c \in GrImageCells : gr_writes[c] <= 1)
  /\ [](gr_pc \in {"loop", "done"} =>
         /\ gr_reads \subseteq {GrUp(c) : c \in GrOwned} \cup {GrDown(c) : c \in GrOwned}
         /\ gr_reads \subseteq GrLocalCells)
  /\ [][gr_pc /= "idle" => gr_img' = gr_img]_vars

\* C16: the gradient along y on a rank that owns one of the two columns has
\* been returned, and it is not zero everywhere
C16_Witness ==
  /\ gr_pc = "done"
  /\ gr_dim = 1
  /\ gr_hi - gr_lo = 1
  /\ \E c \in GrOwned : gr_grad[c] /= I(0)

(***************************************************************************)
(* C17                                                                     *)
(***************************************************************************)
\* a + b for finite a and b, over the least common denominator
BsAdd(a, b) ==
  LET g == Gcd(a[2], b[2])
  IN Flt(a[1] * (b[2] \div g) + b[1] * (a[2] \div g), (a[2] \div g) * b[2])

RECURSIVE BsSumTo(_, _)
BsSumTo(w, n) == IF n = 0 THEN I(0) ELSE BsAdd(BsSumTo(w, n - 1), w[n])

\* the sum of a list of weights, without rounding
BsSum(w) == BsSumTo(w, Len(w))

BsInUnit(w) == \A i \in 1..Len(w) : ~FLt(w[i], I(0)) /\ ~FLt(I(1), w[i])

\* C17 as claimed: the weights calculate_basis_coefficient returns for the
\* corners around a pixel inside the cell are each in [0, 1] and sum to
\* exactly 1.
C17_Claimed ==
  bs_pc = "done" => (BsInUnit(bs_coefs) /\ BsSum(bs_coefs) = I(1))

\* t + t^2 with t = (3D - 1) * 2^-MantBits, which is at least
\* (1 + 2u)^D * (1 + u)^(D-1) - 1 for u = 2^-MantBits, the largest relative
\* error of one rounding: the two roundings of each factor change the sum
\* of the two factors of an axis by at most 2u, and a weight is rounded
\* D-1 times more
BsTolerance(ndim) ==
  LET t == Flt(3 * ndim - 1, Pow2(MantBits))
  IN FAdd(t, FMul(t, t))

\* C17 as amended: the weights are each in [0, 1]; the products taken
\* without rounding sum to exactly 1; the values returned, each operation
\* having rounded, sum to 1 to within the rounding of the operations.
C17_Amended ==
  bs_pc = "done" =>
    /\ BsInUnit(bs_coefs)
    /\ BsInUnit(bs_exact)
    /\ BsSum(bs_exact) = I(1)
    /\ ~FLt(BsTolerance(Len(bs_x)), FAbs(BsAdd(BsSum(bs_coefs), I(-1))))

\* C17: the corners of a pixel strictly inside a 2-D cell are done, and the
\* returned weights do not sum to 1
C17_Witness ==
  /\ bs_pc = "done"
  /\ Len(bs_x) = 2
  /\ \A i \in 1..2 : FLt(I(bs_base), bs_x[i]) /\ FLt(bs_x[i], I(bs_base + 1))
  /\ BsSum(bs_coefs) /= I(1)

(***************************************************************************)
(* C18                                                                     *)
(***************************************************************************)
\* C18: whatever contiguous ranges the rows are owned in, the collectives
\* any two ranks have entered are the same sequence as far as both have
\* got; each rank's sequence is the loop's sequence of collectives over
\* and over, with the allreduce of block_precondition once per inner step;
\* and when one rank has left the inner loop, every rank has left it, at
\* the same iteration and after the same collectives.
C18_Collectives ==
  /\ \A r1 \in 1..rk_n, r2 \in 1..rk_n :
       \/ IsPrefix(rk_trace[r1], rk_trace[r2])
       \/ IsPrefix(rk_trace[r2], rk_trace[r1])
  /\ \A r \in 1..rk_n :
       \A i \in 1..Len(rk_trace[r]) :
         rk_trace[r][i] = RkProgram[((i - 1) % Len(RkProgram)) + 1]
  /\ \A r1 \in 1..rk_n, r2 \in 1..rk_n :
       rk_left[r1] =>
         /\ rk_left[r2]
         /\ rk_inum[r2] = rk_inum[r1]
         /\ rk_trace[r2] = rk_trace[r1]

\* C18: three ranks, one without any rows and one without intensity rows,
\* have left the inner loop in its second iteration
C18_Witness ==
  /\ rk_n = 3
  /\ \E r \in 1..rk_n : rk_start[r] = rk_start[r + 1]
  /\ \E r \in 1..rk_n : rk_turns[r][1] > 0 /\ rk_turns[r][2] = 0
  /\ \E r \in 1..rk_n : rk_turns[r][1] = 0 /\ rk_turns[r][2] > 0
  /\ \A r \in 1..rk_n : rk_left[r] /\ rk_inum[r] = 2

(***************************************************************************)
(* C19                                                                     *)
(***************************************************************************)
\* the calls of an inner step that changes state, in the order claimed
StStages ==
  <<"scatter_grads_to_stacked", "MatDuplicate", "MatDiagonalScale",
    "MatTransposeMatMult", "block_precondition", "MatAXPY", "VecWAXPY",
    "duplicate_single_grad_to_stacked", "MatMultTranspose", "KSPSolve",
    "update", "warp", "normalize">>

\* f - r in every slot of the stacked vector
StResidual ==
  [r \in 1..StackedLen |-> FSub(m_fixed[RowPix(r)], m_p_registered[RowPix(r)])]

\* C19: the calls an inner step has made are always the first ones of:
\* basis duplicated and row-scaled by the stacked vector, N = T'T, block
\* preconditioner, + 20 L, residual into temporary 0 and the stacked
\* vector, right-hand side, solve, update, warp, normalise; and a step
\* that reaches the convergence test has made them all.  Accordingly,
\* before the preconditioner N is T'T for T the basis scaled by the stacked
\* gradients; before the addition it is the preconditioned T'T; before the
\* right-hand side it is that plus 20 L while T and the stacked vector are
\* still the scaled basis and the gradients; and the right-hand side is
\* T' times the stacked residual for that same T.
C19_StageOrder ==
  /\ IsPrefix(st_trace, StStages)
  /\ st_pc = "convergence" => st_trace = StStages
  /\ st_pc = "block_precondition" =>
       /\ m_tmat = MatDiagonalScale(Basis, m_stacktmp, BasisPattern)
       /\ normmat = MatTransposeMatMult(m_tmat)
  /\ st_pc = "axpy" => normmat = block_precondition(st_tmat2, st_nranks)
  /\ st_pc = "rhs" =>
       /\ normmat = MatAXPY(block_precondition(st_tmat2, st_nranks), I(20), Laplacian)
       /\ m_tmat = MatDiagonalScale(Basis, m_stacktmp, BasisPattern)
       /\ st_tmat2 = MatTransposeMatMult(m_tmat)
  /\ (st_pc = "solve" /\ ~st_err) =>
       /\ m_stacktmp = StResidual
       /\ m_rhs = MatMultTranspose(calculate_tmat(m_fixed, m_p_registered), StResidual)

\* C19: a second inner step has run through all its stages, and the
\* intensity rows were rescaled by a finite factor other than 1
C19_Witness ==
  /\ st_pc = "convergence"
  /\ st_inum = 2
  /\ ~st_err
  /\ st_trace = StStages
  /\ IsFinite(lum_scale)
  /\ lum_scale /= I(1)

(***************************************************************************)
(* C20                                                                     *)
(***************************************************************************)
\* (f + r)/2 at the pixel of cell c, a cell outside the image taking the
\* value of the nearest cell of the image
StAverageAt(c) ==
  LET inside == [i \in 1..StNdim |->
                   IF c[i] < 0 THEN 0
                   ELSE IF c[i] >= StShape[i] THEN StShape[i] - 1 ELSE c[i]]
      p == PixIndex(inside)
  IN FDiv(FAdd(m_fixed[p], m_p_registered[p]), I(2))

\* C20: when calculate_tmat has filled the stacked vector, its last slot
\* holds 1 - (f + r)/2 at every pixel, and slot d holds at every pixel,
\* those on the edge of the image included, the central difference of
\* (f + r)/2 along axis d (for images of finite intensities).
C20_Claimed ==
  (/\ st_pc = "normmat"
   /\ \A q \in 1..StNpix : IsFinite(m_fixed[q]) /\ IsFinite(m_p_registered[q])) =>
    \A p \in 1..StNpix :
      /\ m_stacktmp[StNdim * StNpix + p] = FSub(I(1), StAverageAt(PixCoord(p)))
      /\ \A d \in 1..StNdim :
           m_stacktmp[(d - 1) * StNpix + p] =
             FDiv(FSub(StAverageAt(Shift(PixCoord(p), d, 1)),
                       StAverageAt(Shift(PixCoord(p), d, -1))), I(2))

\* the part of C20 that holds: the last slot is 1 - (f + r)/2
C20_LastSlot ==
  st_pc = "normmat" =>
    \A p \in 1..StNpix :
      m_stacktmp[StNdim * StNpix + p] = FSub(I(1), StAverageAt(PixCoord(p)))

(***************************************************************************)
(* C21                                                                     *)
(***************************************************************************)
\* every rank has run its summing loops
BpAllSummed == \A r \in 1..bp_n : bp_summed[r]

\* the sums of the first crit_idx and of the last Mnodes entries of the
\* diagonal of normmat
BpBlockSums ==
  <<SumRange(bp_normdiag, 0, 0, crit_idx), SumRange(bp_normdiag, 0, crit_idx, MapLen)>>

\* C21: whatever contiguous ranges the ranks own, no row is ever added
\* twice or to the wrong sum; once every rank has summed, each row below
\* crit_idx has been added exactly once to norm[0] and each other row exactly
\* once to norm[1]; the reduced norm holds the sums of the two blocks of the
\* diagonal; lum_scale is the ratio of their means; and the scaling vector
\* gets 1 on exactly the spatial rows and lum_scale on exactly the intensity
\* rows, the rows of a rank that has not filled yet still holding the
\* diagonal.
C21_Split ==
  /\ bp_pc /= "idle" =>
       \A i \in 1..MapLen :
         /\ bp_count[i][1] <= (IF i <= crit_idx THEN 1 ELSE 0)
         /\ bp_count[i][2] <= (IF i <= crit_idx THEN 0 ELSE 1)
  /\ (bp_pc /= "idle" /\ BpAllSummed) =>
       \A i \in 1..MapLen :
         bp_count[i] = IF i <= crit_idx THEN <<1, 0>> ELSE <<0, 1>>
  /\ bp_pc = "reduced" => bp_norm = BpBlockSums
  /\ bp_pc = "fill" =>
       /\ bp_norm = <<FDiv(BpBlockSums[1], I(crit_idx)), FDiv(BpBlockSums[2], I(Mnodes))>>
       /\ bp_lum_scale = FDiv(bp_norm[1], bp_norm[2])
       /\ \A r \in 1..bp_n : \A i \in (bp_start[r] + 1)..bp_start[r + 1] :
            bp_ptr[i] = IF ~bp_filled[r] THEN bp_normdiag[i]
                        ELSE IF i <= crit_idx THEN I(1) ELSE bp_lum_scale
  /\ bp_pc = "done" =>
       \A i \in 1..MapLen : bp_ptr[i] = IF i <= crit_idx THEN I(1) ELSE bp_lum_scale

\* C21: three ranks have finished, one owning no row, one owning rows of
\* both blocks and one owning intensity rows only; the diagonal held
\* distinct values and the scale is a finite number other than 1
C21_Witness ==
  /\ bp_pc = "done"
  /\ bp_n = 3
  /\ \E r \in 1..bp_n : bp_start[r] = bp_start[r + 1]
  /\ \E r \in 1..bp_n : bp_start[r] < crit_idx /\ crit_idx < bp_start[r + 1]
  /\ \E r \in 1..bp_n : crit_idx < bp_start[r] /\ bp_start[r] < bp_start[r + 1]
  /\ IsFinite(bp_lum_scale)
  /\ bp_lum_scale /= I(1)
  /\ bp_normdiag[1] /= bp_normdiag[2]

(***************************************************************************)
(* C22                                                                     *)
(***************************************************************************)
\* the last entry of the list of node spacings
Back(list) == list[Len(list)]

\* C22: whenever an inner loop starts, the map has the spacing of the last
\* entry of m_v_nodespacings, which the iterator designates; in the first
\* generation that is the coarsest spacing of the cascade, in the last one
\* the final spacing; the list is always the cascade less one entry from
\* its end per generation completed and followed by another; and when
\* autoregister has returned the list holds the final spacing and nothing
\* else.
C22_ListBack ==
  /\ pc = "innerloop" =>
       /\ m_p_map = Back(m_v_nodespacings)
       /\ it = Len(m_v_nodespacings)
       /\ loop_count = 1 => m_p_map = Back(Cascade)
       /\ loop_count = Len(Cascade) => m_p_map = m_v_final_nodespacing
       /\ Len(m_v_nodespacings) = 1 => m_p_map = m_v_final_nodespacing
  /\ pc \in {"loop_head", "innerloop", "innerstep", "convcheck", "advance", "erase"} =>
       /\ IsPrefix(m_v_nodespacings, Cascade)
       /\ Len(m_v_nodespacings) = Len(Cascade) - (loop_count - 1)
  /\ pc \in {"interpolate", "reallocate", "warp"} =>
       /\ IsPrefix(m_v_nodespacings, Cascade)
       /\ Len(m_v_nodespacings) = Len(Cascade) - loop_count
  /\ pc = "write" =>
       /\ m_v_nodespacings = <<m_v_final_nodespacing>>
       /\ loop_count = Len(Cascade)

\* C22: autoregister has returned from a cascade of three spacings or
\* more, and only the final one is left
C22_Witness ==
  /\ pc = "write"
  /\ loop_count >= 3
  /\ Len(m_v_nodespacings) = 1
  /\ m_p_map = m_v_final_nodespacing
  /\ m_p_map /= Back(Cascade)

(***************************************************************************)
(* C23                                                                     *)
(***************************************************************************)
\* C23: where an inner step reads tmat (from the product T'T to the
\* right-hand side) the handle holds the matrix built in this step from
\* the current images; from the solve to the next calculate_tmat, and when
\* the inner loop has returned, tmat holds no matrix; and normmat holds no
\* matrix when MatTransposeMatMult writes it, and one from then on.
C23_Handles ==
  /\ st_pc \in {"normmat", "tmat2", "block_precondition", "axpy", "rhs"} =>
       /\ m_tmat /= <<>>
       /\ m_tmat = calculate_tmat(m_fixed, m_p_registered)
  /\ st_pc \in {"calculate_tmat", "solve", "update", "convergence", "done"} =>
       m_tmat = <<>>
  /\ st_pc = "tmat2" => normmat = <<>>
  /\ st_pc \in {"block_precondition", "axpy", "rhs", "solve", "update",
                "convergence", "done"} => normmat /= <<>>

\* C23: a second inner step is about to write normmat, which held the
\* matrix of the first step and holds none now, while tmat is built
C23_Witness ==
  /\ st_pc = "tmat2"
  /\ st_inum = 2
  /\ normmat = <<>>
  /\ st_tmat2 /= <<>>
  /\ m_tmat /= <<>>

(***************************************************************************)
(* C24                                                                     *)
(***************************************************************************)
\* C24: for a fixed image with Nz = 1 the registrar stores the spacing
\* (s, s, 1), its cascade is that spacing alone, and autoregister runs one
\* inner loop, on that spacing, with no interpolation, reallocation or warp
\* between generations.
C24_OneGeneration ==
  (el_constructed /\ fixed.m_shape[3] = 1) =>
    /\ m_v_final_nodespacing = <<nsArg, nsArg, I(1)>>
    /\ Cascade = <<m_v_final_nodespacing>>
    /\ m_v_nodespacings = <<m_v_final_nodespacing>>
    /\ m_p_map = m_v_final_nodespacing
    /\ loop_count <= 1
    /\ IsPrefix(events, <<<<"innerloop", m_v_final_nodespacing>>>>)
    /\ pc \notin {"erase", "interpolate", "reallocate", "warp"}
    /\ pc = "write" => (loop_count = 1 /\ Len(events) = 1)

\* C24: autoregister has returned on a 2-D image whose x and y extents are
\* more than twice the spacing
C24_Witness ==
  /\ pc = "write"
  /\ fixed.m_shape[3] = 1
  /\ SpacingPred(m_v_final_nodespacing[1], fixed.m_shape[1])
  /\ SpacingPred(m_v_final_nodespacing[2], fixed.m_shape[2])
  /\ events = <<<<"innerloop", m_v_final_nodespacing>>>>

\* the constructor's cascade for every stored shape with Nz = 1 and every
\* spacing vector it accepts, zero and negative spacings included
C24_CtorCascade ==
  (ct_pc \in {"map", "workspace", "done"} /\ ct_fixed[3] = 1) =>
    /\ Len(ct_final) = 3
    /\ ct_final[3] = I(1)
    /\ cs_nodespacings = <<ct_final>>

(***************************************************************************)
(* C25                                                                     *)
(***************************************************************************)
\* finite samples, none negative, their sum the number of pixels
StNormalised(v) ==
  /\ \A p \in 1..StNpix : IsFinite(v[p]) /\ ~FLt(v[p], I(0))
  /\ VecSum(v) = I(StNpix)

\* C25: when block_precondition has run on the matrix built from a
\* normalised non-negative fixed image and a normalised non-negative
\* registered image, the mean of the intensity block's diagonal was not
\* zero and lum_scale is a finite number.
C25_Claimed ==
  (st_pc = "axpy" /\ StNormalised(m_fixed) /\ StNormalised(m_p_registered)) =>
    /\ ~FEq(MeanDiag(st_tmat2, crit_idx + 1, MapLen), I(0))
    /\ IsFinite(lum_scale)

(***************************************************************************)
(* C26                                                                     *)
(***************************************************************************)
\* finite samples, none negative, their sum the number of pixels
GnNormalised(v) ==
  /\ \A p \in 1..GnNpix : IsFinite(v[p]) /\ ~FLt(v[p], I(0))
  /\ VecSum(v) = I(GnNpix)

\* C26: with a normalised moved image, the registered image is normalised
\* at the start of every inner step, and so is every registered image
\* calculate_tmat has read.
C26_Claimed ==
  GnNormalised(gn_moved) =>
    /\ gn_pc = "innerstep" => VecSum(gn_registered) = I(GnNpix)
    /\ gn_read /= <<>> => VecSum(gn_read) = I(GnNpix)

\* the part of C26 that holds: within a generation, from its second inner
\* step on, the registered image is normalised whenever the warped image
\* has a sum other than 0
C26_WithinGeneration ==
  (GnNormalised(gn_moved) /\ gn_pc = "innerstep" /\ gn_inum > 1
     /\ VecSum(WarpShift(gn_moved, gn_disp)) /= I(0)) =>
    VecSum(gn_registered) = I(GnNpix)

\* what C26 says of the first inner step of a generation, for warped
\* images whose samples are not all 0
C26_AtBoundary ==
  (GnNormalised(gn_moved) /\ gn_pc = "innerstep" /\ gn_inum = 1
     /\ VecSum(WarpShift(gn_moved, gn_disp)) /= I(0)) =>
    VecSum(gn_registered) = I(GnNpix)

====
